---- MODULE Spec2Model ----
(***************************************************************************)
(* Model of the traffic route monitor (main.py, change_monitor.py,         *)
(* route_processor.py, traffic_fetcher.py).                                *)
(*                                                                         *)
(* Units.  OSRM durations are floats; they are kept here in tenths of a    *)
(* second (6003 is 600.3 s).  The duration_seconds column is INTEGER, so a *)
(* stored duration is the duration rounded to whole seconds.  Distances    *)
(* are metres.  avg_speed, old_value, new_value and percentage_change are  *)
(* exact rationals [n, d] in lowest terms with d > 0 (the REAL columns'    *)
(* single-precision rounding is not modelled; every value the thresholds   *)
(* are compared at exactly is representable).  Coordinates are in          *)
(* thousandths of a degree.                                                *)
(*                                                                         *)
(* The persistence layer is assumed reachable: connecting and executing a  *)
(* statement do not fail.  The exceptions modelled are the ones the code   *)
(* itself raises.                                                          *)
(***************************************************************************)
EXTENDS Integers, Sequences, FiniteSets, TLC

VARIABLES
    routes,           \* TrafficRouteMonitor.routes: the dict, as its items in insertion order
    route_snapshots,  \* table route_snapshots, rows in insertion (id) order
    route_changes,    \* table route_changes, rows in insertion (id) order
    traffic_history,  \* table traffic_history, by its number of rows: nothing reads it
    clock,            \* datetime.now(), read in ticks that separate two snapshot writes
    pc,               \* "idle", or "update" while update_routes is inside its loop
    iter,             \* update_routes: the route ids its loop has not visited yet
    last,             \* the call that acted last: what it was, how it ended
    mon,              \* start_monitoring: where it is ("off" before it is called)
    due_in,           \* schedule: minutes until the scheduled job is due, 0 when it is due
    di_used,          \* update_routes: the size of self.routes when its iteration began
    result,           \* what check_route_traffic returned last (None: null)
    response          \* api.py: the HTTP response sent last, or the value an estimator returned

vars == <<routes, route_snapshots, route_changes, traffic_history, clock, pc, iter, last,
          mon, due_in, di_used, result, response>>

\* What the monitor's own methods, called one after another, leave alone
aux == <<mon, due_in, di_used, result, response>>

----------------------------------------------------------------------------
\* Bounds of the model

MaxSnapshots == 2
MaxChanges == 2
MaxTraffic == 1

----------------------------------------------------------------------------
\* Program constants

DURATION_THRESHOLD == 30
SPEED_THRESHOLD == 2
BBOX_BUFFER == 5
UPDATE_INTERVAL_MINUTES == 30
SLEEP_SECONDS == 60

\* Python's None, for the values that are lists or tuples otherwise
None == <<>>
\* Python's None, for a traffic payload
NoData == "None"

----------------------------------------------------------------------------
\* Exact rational arithmetic for the float columns

Abs(x) == IF x < 0 THEN -x ELSE x

RECURSIVE GCD(_, _)
GCD(a, b) == IF b = 0 THEN a ELSE GCD(b, a % b)

Rat(n, d) ==
    LET g == GCD(Abs(n), d)
    IN  [n |-> n \div g, d |-> d \div g]

RatInt(k) == [n |-> k, d |-> 1]
RatSub(a, b) == Rat(a.n * b.d - b.n * a.d, a.d * b.d)
RatAbs(a) == [n |-> Abs(a.n), d |-> a.d]
RatGtInt(a, k) == a.n > k * a.d
RatGeInt(a, k) == a.n >= k * a.d
RatDiv(a, b) ==
    IF b.n > 0 THEN Rat(a.n * b.d, a.d * b.n)
    ELSE Rat((-a.n) * b.d, a.d * (-b.n))
RatMulInt(a, k) == Rat(a.n * k, a.d)

Min2(a, b) == IF a <= b THEN a ELSE b
Max2(a, b) == IF a >= b THEN a ELSE b

----------------------------------------------------------------------------
\* The environment: what the routing engine and the traffic provider answer

RouteIds == {"r1", "r2"}

GeoA == << <<10, 20>>, <<12, 25>> >>
GeoB == << <<10, 20>>, <<8, 22>>, <<15, 21>> >>

\* routes[0] of an OSRM answer: duration in tenths of a second, distance in metres.
\* Stored, they are (seconds, metres per second): (0, 0), (500, 10), (560, 125/14),
\* (500, 20), (560, 1251/70) and (530, 12).
OsrmRoutes ==
    { [duration |-> 0,    distance |-> 0,     geometry |-> GeoA],
      [duration |-> 5000, distance |-> 5000,  geometry |-> GeoA],
      [duration |-> 5600, distance |-> 5000,  geometry |-> GeoA],
      [duration |-> 5004, distance |-> 10008, geometry |-> GeoB],
      [duration |-> 5600, distance |-> 10008, geometry |-> GeoB],
      [duration |-> 5300, distance |-> 6360,  geometry |-> GeoB] }

\* get_route_from_osrm returns response.json(), kept as its 'routes' list, or None
\* on any error
OsrmAnswers == { <<r>> : r \in OsrmRoutes } \cup {None}

\* What get_route_from_osrm answers to check_route_traffic: nothing, a route of
\* duration 0, a route
CheckRouteAnswers ==
    { None,
      << [duration |-> 0,    distance |-> 0,    geometry |-> GeoA] >>,
      << [duration |-> 5000, distance |-> 5000, geometry |-> GeoA] >> }

\* fetch_traffic_data returns response.json(), or None on any error.  A payload is
\* kept by its shape: an empty JSON object or array ("empty"), a dict with its
\* records under body.items ("body"), data ("data"), response.data ("response") or
\* result ("result"), a bare list that is not empty ("list").
TrafficAnswers == {NoData, "empty", "body", "list"}

\* "is not None" in the place of truthiness
TruthyNotNone(traffic_data) == traffic_data # NoData

Truthy(traffic_data) == traffic_data \notin {NoData, "empty"}

\* A field of a provider record: a number, a text that is no number, or no such
\* key in the record
Number(n) == [kind |-> "number", value |-> n]
NotANumber == [kind |-> "text", value |-> 0]
Missing == [kind |-> "missing", value |-> 0]

\* A provider record, by what the analysis reads of it: whether it has a linkId,
\* its speed in km/h and its travelTime
Record(linkId, speed, travelTime) == [linkId |-> linkId, speed |-> speed, travelTime |-> travelTime]
Item(speed) == Record(TRUE, Number(speed), Number(60))

\* The records of a payload: none, or one
CheckItems == { <<>>, <<Item(36)>> }

\* Coordinates, the waypoints check_route_traffic is given (None: route data
\* without usable waypoints), and the calls of add_route: (route_id, start_coords,
\* end_coords, bbox)
P1 == <<37, 126>>
P2 == <<38, 127>>
GivenBBox == <<100, 200, 30, 40>>
Waypoints == { None, <<P1, P2>> }
AddCalls ==
    { [route_id |-> "r1", start_coords |-> P1, end_coords |-> P2, bbox |-> None],
      [route_id |-> "r2", start_coords |-> P2, end_coords |-> P1, bbox |-> GivenBBox] }

----------------------------------------------------------------------------
\* route_processor.py

RECURSIVE MinOf(_), MaxOf(_)
MinOf(s) == IF Len(s) = 1 THEN s[1] ELSE Min2(s[1], MinOf(Tail(s)))
MaxOf(s) == IF Len(s) = 1 THEN s[1] ELSE Max2(s[1], MaxOf(Tail(s)))

\* coord[0] and coord[1] taken the other way round
calculate_route_bbox_swapped(route_geometry) ==
    LET lngs == [i \in 1..Len(route_geometry) |-> route_geometry[i][2]]
        lats == [i \in 1..Len(route_geometry) |-> route_geometry[i][1]]
    IN  << MinOf(lngs) - BBOX_BUFFER, MaxOf(lngs) + BBOX_BUFFER,
           MinOf(lats) - BBOX_BUFFER, MaxOf(lats) + BBOX_BUFFER >>

calculate_route_bbox(route_geometry) ==
    LET lngs == [i \in 1..Len(route_geometry) |-> route_geometry[i][1]]
        lats == [i \in 1..Len(route_geometry) |-> route_geometry[i][2]]
    IN  << MinOf(lngs) - BBOX_BUFFER, MaxOf(lngs) + BBOX_BUFFER,
           MinOf(lats) - BBOX_BUFFER, MaxOf(lats) + BBOX_BUFFER >>

\* extract_waypoints_from_route_data: (start_coords, end_coords) of the route
\* data's first and last waypoint, (None, None) when it has none
extract_waypoints_from_route_data(route_data) ==
    IF route_data = None THEN <<None, None>> ELSE <<route_data[1], route_data[2]>>

\* match_traffic_to_network reads traffic_data.get('data', []): a bare list has no
\* get.  calculate_updated_route returns a value update_routes never uses.
calculate_updated_route_raises(traffic_data) ==
    IF traffic_data = "list" THEN "AttributeError" ELSE "none"

----------------------------------------------------------------------------
\* change_monitor.py

\* psycopg2 passes the float as a numeric literal; the INTEGER column rounds it
\* to the nearest whole second, halves away from zero
RoundSeconds(duration) == (duration + 5) \div 10

AvgSpeed(duration, distance) ==
    IF duration > 0 THEN Rat(distance * 10, duration) ELSE RatInt(0)

SnapshotRow(route_id, route_data, now) ==
    [ timestamp        |-> now,
      route_id         |-> route_id,
      duration_seconds |-> RoundSeconds(route_data.duration),
      distance_meters  |-> route_data.distance,
      avg_speed        |-> AvgSpeed(route_data.duration, route_data.distance) ]

\* the route's row replaced in place instead of a row added
store_route_snapshot_upsert(snapshots, route_id, route_data, now) ==
    IF \E i \in 1..Len(snapshots) : snapshots[i].route_id = route_id
    THEN [ i \in 1..Len(snapshots) |->
             IF snapshots[i].route_id = route_id
             THEN SnapshotRow(route_id, route_data, now) ELSE snapshots[i] ]
    ELSE Append(snapshots, SnapshotRow(route_id, route_data, now))

\* a row added only for a route id that has none yet
store_route_snapshot_once(snapshots, route_id, route_data, now) ==
    IF \E i \in 1..Len(snapshots) : snapshots[i].route_id = route_id
    THEN snapshots
    ELSE Append(snapshots, SnapshotRow(route_id, route_data, now))

store_route_snapshot(snapshots, route_id, route_data, now) ==
    Append(snapshots, SnapshotRow(route_id, route_data, now))

\* SELECT ... WHERE route_id = %s ORDER BY timestamp DESC LIMIT 2
FetchLastTwoOfAnyRoute(snapshots, route_id) ==
    LET S == 1..Len(snapshots)
        Newest(T) == CHOOSE i \in T : \A j \in T : snapshots[j].timestamp <= snapshots[i].timestamp
    IN  IF S = {} THEN <<>>
        ELSE LET a == Newest(S)
             IN  IF S \ {a} = {} THEN <<snapshots[a]>>
                 ELSE <<snapshots[a], snapshots[Newest(S \ {a})]>>

FetchLastTwo(snapshots, route_id) ==
    LET S == {i \in 1..Len(snapshots) : snapshots[i].route_id = route_id}
        Newest(T) == CHOOSE i \in T : \A j \in T : snapshots[j].timestamp <= snapshots[i].timestamp
    IN  IF S = {} THEN <<>>
        ELSE LET a == Newest(S)
             IN  IF S \ {a} = {} THEN <<snapshots[a]>>
                 ELSE <<snapshots[a], snapshots[Newest(S \ {a})]>>

\* abs(current - previous) > threshold
CrossesOrMeets(current, previous, threshold) ==
    RatGeInt(RatAbs(RatSub(current, previous)), threshold)

CrossesSigned(current, previous, threshold) ==
    RatGtInt(RatSub(current, previous), threshold)

Crosses(current, previous, threshold) ==
    RatGtInt(RatAbs(RatSub(current, previous)), threshold)

\* ((current - previous) / previous) * 100, evaluated only where previous # 0
PercentageChangeOfNew(current, previous) ==
    RatMulInt(RatDiv(RatSub(current, previous), current), 100)

PercentageChange(current, previous) ==
    RatMulInt(RatDiv(RatSub(current, previous), previous), 100)

Change(type, current, previous) ==
    [ type              |-> type,
      old_value         |-> previous,
      new_value         |-> current,
      percentage_change |-> PercentageChange(current, previous) ]

\* The value detect_changes returns, or the exception it raises before it has
\* written anything: the division is by the older value, unguarded.
detect_changes(snapshots, route_id) ==
    LET results == FetchLastTwo(snapshots, route_id)
    IN  IF Len(results) < 2 THEN [raised |-> "none", changes |-> <<>>]
        ELSE
        LET current  == results[1]
            previous == results[2]
            curDur   == RatInt(current.duration_seconds)
            prevDur  == RatInt(previous.duration_seconds)
            durHit   == Crosses(curDur, prevDur, DURATION_THRESHOLD)
            spdHit   == Crosses(current.avg_speed, previous.avg_speed, SPEED_THRESHOLD)
        IN  IF (durHit /\ prevDur.n = 0) \/ (spdHit /\ previous.avg_speed.n = 0)
            THEN [raised |-> "ZeroDivisionError", changes |-> <<>>]
            ELSE [ raised  |-> "none",
                   changes |->
                       (IF durHit THEN << Change("duration", curDur, prevDur) >> ELSE <<>>)
                       \o (IF spdHit
                           THEN << Change("avg_speed", current.avg_speed, previous.avg_speed) >>
                           ELSE <<>>) ]

\* one row per change that is not in the table yet
store_changes_unless_present(changes_table, route_id, changes, now) ==
    changes_table \o
    [ i \in 1..Len(SelectSeq(changes, LAMBDA c :
                       ~\E k \in 1..Len(changes_table) :
                           /\ changes_table[k].route_id = route_id
                           /\ changes_table[k].change_type = c.type
                           /\ changes_table[k].old_value = c.old_value
                           /\ changes_table[k].new_value = c.new_value)) |->
        LET c == SelectSeq(changes, LAMBDA x :
                     ~\E k \in 1..Len(changes_table) :
                         /\ changes_table[k].route_id = route_id
                         /\ changes_table[k].change_type = x.type
                         /\ changes_table[k].old_value = x.old_value
                         /\ changes_table[k].new_value = x.new_value)[i]
        IN  [ timestamp         |-> now,
              route_id          |-> route_id,
              change_type       |-> c.type,
              old_value         |-> c.old_value,
              new_value         |-> c.new_value,
              percentage_change |-> c.percentage_change ] ]

\* INSERT INTO route_changes, one row per change
store_changes(changes_table, route_id, changes, now) ==
    changes_table \o
    [ i \in 1..Len(changes) |->
        [ timestamp         |-> now,
          route_id          |-> route_id,
          change_type       |-> changes[i].type,
          old_value         |-> changes[i].old_value,
          new_value         |-> changes[i].new_value,
          percentage_change |-> changes[i].percentage_change ] ]

----------------------------------------------------------------------------
\* traffic_fetcher.py

\* if not traffic_data: return; else INSERT INTO traffic_history
store_traffic_data(history, traffic_data) ==
    IF ~Truthy(traffic_data) THEN history ELSE history + 1

----------------------------------------------------------------------------
\* main.py: the registry self.routes, a dict (insertion-ordered)

DictKeys(d) == [i \in 1..Len(d) |-> d[i].route_id]
DictHas(d, k) == \E i \in 1..Len(d) : d[i].route_id = k
DictGet(d, k) == d[CHOOSE i \in 1..Len(d) : d[i].route_id = k]
\* d[k] = v: an existing key keeps its place, a new key goes last
DictSet(d, k, v) ==
    IF DictHas(d, k)
    THEN [i \in 1..Len(d) |-> IF d[i].route_id = k THEN v ELSE d[i]]
    ELSE Append(d, v)

Entry(route_id, start_coords, end_coords, bbox, current_route) ==
    [ route_id      |-> route_id,
      start_coords  |-> start_coords,
      end_coords    |-> end_coords,
      bbox          |-> bbox,
      current_route |-> current_route ]

Call(op, route_id, branch, changes, raised) ==
    [op |-> op, route_id |-> route_id, branch |-> branch, changes |-> changes, raised |-> raised]

Init ==
    /\ routes = <<>>
    /\ route_snapshots = <<>>
    /\ route_changes = <<>>
    /\ traffic_history = 0
    /\ clock = 1
    /\ pc = "idle"
    /\ iter = <<>>
    /\ last = Call("init", "", "", <<>>, "none")
    /\ mon = "off"
    /\ due_in = 0
    /\ di_used = 0
    /\ result = None
    /\ response = None

\* The tables stay within the model's bounds
WithinBounds ==
    /\ Len(route_snapshots') <= MaxSnapshots
    /\ Len(route_changes') <= MaxChanges
    /\ traffic_history' <= MaxTraffic

\* add_route(route_id, start_coords, end_coords, bbox); initial_route is what
\* get_route_from_osrm answers
add_route(route_id, start_coords, end_coords, bbox, initial_route) ==
    /\ IF initial_route # None
       THEN LET box == IF bbox = None
                       THEN calculate_route_bbox(initial_route[1].geometry)
                       ELSE bbox
            IN  /\ routes' = DictSet(routes, route_id,
                                Entry(route_id, start_coords, end_coords, box, initial_route))
                /\ route_snapshots' =
                       store_route_snapshot(route_snapshots, route_id, initial_route[1], clock)
                /\ clock' = clock + 1
                /\ last' = Call("add_route", route_id, "added", <<>>, "none")
       ELSE /\ last' = Call("add_route", route_id, "failed", <<>>, "none")
            /\ UNCHANGED <<routes, route_snapshots, clock>>
    /\ UNCHANGED <<route_changes, traffic_history, pc, iter>>
    /\ WithinBounds

\* add_route called by the thread that calls update_routes: between two passes
AddRoute(route_id, start_coords, end_coords, bbox, initial_route) ==
    /\ pc = "idle"
    /\ add_route(route_id, start_coords, end_coords, bbox, initial_route)

\* update_routes: for route_id, route_info in self.routes.items()
UpdateRoutesBegin ==
    /\ pc = "idle"
    /\ pc' = "update"
    /\ iter' = DictKeys(routes)
    /\ last' = Call("update_routes", "", "begin", <<>>, "none")
    /\ UNCHANGED <<routes, route_snapshots, route_changes, traffic_history, clock>>

\* update_routes: one turn of the loop, for the next route id.  traffic_data and
\* current_route are what fetch_traffic_data and get_route_from_osrm answer.  An
\* exception leaves update_routes: the ids still in iter are never visited.
UpdateRoutesStep(traffic_data, current_route) ==
    /\ pc = "update"
    /\ iter # <<>>
    /\ LET route_id   == Head(iter)
           route_info == DictGet(routes, route_id)
           history    == store_traffic_data(traffic_history, traffic_data)
           snapshots  == store_route_snapshot(route_snapshots, route_id, current_route[1], clock)
           detected   == detect_changes(snapshots, route_id)
       IN  /\ iter' = Tail(iter)
           /\ IF ~Truthy(traffic_data)
              THEN /\ last' = Call("update_routes", route_id, "no_traffic", <<>>, "none")
                   /\ UNCHANGED <<routes, route_snapshots, route_changes, traffic_history,
                                  clock, pc>>
              ELSE IF calculate_updated_route_raises(traffic_data) # "none"
              THEN /\ traffic_history' = history
                   /\ pc' = "idle"
                   /\ last' = Call("update_routes", route_id, "raised", <<>>,
                                   calculate_updated_route_raises(traffic_data))
                   /\ UNCHANGED <<routes, route_snapshots, route_changes, clock>>
              ELSE IF current_route = None
              THEN /\ traffic_history' = history
                   /\ last' = Call("update_routes", route_id, "no_route", <<>>, "none")
                   /\ UNCHANGED <<routes, route_snapshots, route_changes, clock, pc>>
              ELSE IF detected.raised # "none"
              THEN /\ traffic_history' = history
                   /\ route_snapshots' = snapshots
                   /\ clock' = clock + 1
                   /\ pc' = "idle"
                   /\ last' = Call("update_routes", route_id, "raised", <<>>, detected.raised)
                   /\ UNCHANGED <<routes, route_changes>>
              ELSE /\ traffic_history' = history
                   /\ route_snapshots' = snapshots
                   /\ clock' = clock + 1
                   /\ route_changes' =
                          store_changes(route_changes, route_id, detected.changes, clock + 1)
                   /\ routes' = DictSet(routes, route_id,
                                        [route_info EXCEPT !.current_route = current_route])
                   /\ last' = Call("update_routes", route_id, "updated", detected.changes, "none")
                   /\ UNCHANGED pc
    /\ WithinBounds

\* update_routes: the loop is over
UpdateRoutesEnd ==
    /\ pc = "update"
    /\ iter = <<>>
    /\ pc' = "idle"
    /\ last' = Call("update_routes", "", "completed", <<>>, "none")
    /\ UNCHANGED <<routes, route_snapshots, route_changes, traffic_history, clock, iter>>

\* change_monitor.detect_changes(route_id), called on its own
DetectChanges(route_id) ==
    /\ pc = "idle"
    /\ LET detected == detect_changes(route_snapshots, route_id)
       IN  IF detected.raised # "none"
           THEN /\ last' = Call("detect_changes", route_id, "raised", <<>>, detected.raised)
                /\ UNCHANGED route_changes
           ELSE /\ route_changes' =
                       store_changes(route_changes, route_id, detected.changes, clock)
                /\ last' = Call("detect_changes", route_id, "returned", detected.changes, "none")
    /\ UNCHANGED <<routes, route_snapshots, traffic_history, clock, pc, iter>>
    /\ WithinBounds

\* _analyze_traffic_data reads traffic_data.keys(): a bare list has no keys
analyze_traffic_data_raises(traffic_data) ==
    IF traffic_data = "list" THEN "AttributeError" ELSE "none"

\* A matched sample, by its current_speed in km/h
Match(speed) == [current_speed |-> speed]

\* float(item.get(key, 0)) of a field of a provider record: the number of a
\* number, 0 for a missing key; a text that is no number raises ValueError
Float(field) == IF field.kind = "number" THEN field.value ELSE 0
FloatRaises(field) == field.kind = "text"

\* the records of the payload _match_traffic_geographically reads: those of
\* body.items, else those of data, else none ('body' in traffic_data is a
\* membership test on a bare list, and false)
traffic_items(traffic_data, items) ==
    IF traffic_data \in {"body", "data"} THEN items ELSE <<>>

\* _match_traffic_geographically stops at the first record with a linkId whose
\* speed or travelTime float() refuses
match_traffic_geographically_raises(traffic_data, items) ==
    IF \E i \in 1..Len(traffic_items(traffic_data, items)) :
           /\ items[i].linkId
           /\ FloatRaises(items[i].speed) \/ FloatRaises(items[i].travelTime)
    THEN "ValueError" ELSE "none"

\* _match_traffic_geographically, when it returns: one match for each record read
\* that has a linkId
match_traffic_geographically(traffic_data, items) ==
    LET linked == SelectSeq(traffic_items(traffic_data, items), LAMBDA item : item.linkId)
    IN  [ i \in 1..Len(linked) |->
            [ current_speed |-> Float(linked[i].speed),
              travel_time   |-> Float(linked[i].travelTime) ] ]

\* match_traffic_to_route(route_geometry, traffic_data, buffer_distance): the
\* samples the network database places within the buffer of the route: here all
\* the records with a linkId (db_hit) or none; a field that is no number counts
\* as 0
match_traffic_to_route(traffic_data, items, db_hit) ==
    LET linked == SelectSeq(traffic_items(traffic_data, items), LAMBDA item : item.linkId)
    IN  IF db_hit THEN [i \in 1..Len(linked) |-> Match(Float(linked[i].speed))] ELSE <<>>

\* What check_route_traffic(route_data, route_name) returns (None, or the result
\* in a list) or raises, and the calls it has made to the traffic provider, the
\* persistence layer and the routing engine.  With nothing matched through the
\* database but samples in the area, _print_traffic_adjusted_route prints the
\* planned average speed, (distance / 1000) / (duration / 3600), whatever the
\* duration.
check_route_traffic(route_data, traffic_data, items, db_hit, current_route) ==
    LET coords             == extract_waypoints_from_route_data(route_data)
        matched_traffic    == match_traffic_to_route(traffic_data, items, db_hit)
        geographic_matches == match_traffic_geographically(traffic_data, items)
        fetched            == << "fetch_traffic_data" >>
        analysed           == << "fetch_traffic_data", "store_traffic_data", "get_route_from_osrm" >>
        Returns(value, calls) == [raised |-> "none", value |-> value, calls |-> calls]
        Raises(error)      == [raised |-> error, value |-> None, calls |-> analysed]
        Result(matches)    ==
            << [ route_data      |-> [ duration |-> current_route[1].duration,
                                       distance |-> current_route[1].distance ],
                 matched_traffic |-> matches ] >>
    IN  IF coords[1] = None \/ coords[2] = None THEN Returns(None, <<>>)
        ELSE IF ~Truthy(traffic_data) THEN Returns(None, fetched)
        ELSE IF current_route = None THEN Returns(None, analysed)
        ELSE IF analyze_traffic_data_raises(traffic_data) # "none"
        THEN Raises(analyze_traffic_data_raises(traffic_data))
        ELSE IF match_traffic_geographically_raises(traffic_data, items) # "none"
        THEN Raises(match_traffic_geographically_raises(traffic_data, items))
        ELSE IF matched_traffic # <<>> THEN Returns(Result(matched_traffic), analysed)
        ELSE IF geographic_matches # <<>>
        THEN IF current_route[1].duration = 0 THEN Raises("ZeroDivisionError")
             ELSE Returns(Result(geographic_matches), analysed)
        ELSE Returns(Result(matched_traffic), analysed)

\* The traffic data fetched has been stored: store_traffic_data is among the
\* calls made
Stored(out) == \E i \in DOMAIN out.calls : out.calls[i] = "store_traffic_data"

\* check_route_traffic with the analysed route entered into the registry
CheckRouteTrafficRegisters(route_data, traffic_data, items, db_hit, current_route) ==
    /\ pc = "idle"
    /\ LET out == check_route_traffic(route_data, traffic_data, items, db_hit, current_route)
       IN  /\ traffic_history' =
                  IF Stored(out) THEN store_traffic_data(traffic_history, traffic_data)
                  ELSE traffic_history
           /\ last' = Call("check_route_traffic", "",
                           IF out.raised # "none" THEN "raised"
                           ELSE IF out.value = None THEN "null" ELSE "result",
                           <<>>, out.raised)
           /\ routes' = IF out.value = None THEN routes
                        ELSE DictSet(routes, "r1",
                                     Entry("r1", route_data[1], route_data[2], None, current_route))
    /\ UNCHANGED <<route_snapshots, route_changes, clock, pc, iter>>
    /\ WithinBounds

\* check_route_traffic(route_data, route_name); traffic_data and current_route are
\* what fetch_traffic_data and get_route_from_osrm answer
CheckRouteTraffic(route_data, traffic_data, items, db_hit, current_route) ==
    /\ pc = "idle"
    /\ LET out == check_route_traffic(route_data, traffic_data, items, db_hit, current_route)
       IN  /\ traffic_history' =
                  IF Stored(out) THEN store_traffic_data(traffic_history, traffic_data)
                  ELSE traffic_history
           /\ last' = Call("check_route_traffic", "",
                           IF out.raised # "none" THEN "raised"
                           ELSE IF out.value = None THEN "null" ELSE "result",
                           <<>>, out.raised)
    /\ UNCHANGED <<routes, route_snapshots, route_changes, clock, pc, iter>>
    /\ WithinBounds

Next ==
    \/ \E call \in AddCalls, initial_route \in OsrmAnswers :
          /\ AddRoute(call.route_id, call.start_coords, call.end_coords, call.bbox, initial_route)
          /\ UNCHANGED aux
    \/ UpdateRoutesBegin /\ UNCHANGED aux
    \/ \E traffic_data \in TrafficAnswers, current_route \in OsrmAnswers :
          UpdateRoutesStep(traffic_data, current_route) /\ UNCHANGED aux
    \/ UpdateRoutesEnd /\ UNCHANGED aux
    \/ \E route_id \in RouteIds : DetectChanges(route_id) /\ UNCHANGED aux
    \/ \E route_data \in Waypoints, traffic_data \in TrafficAnswers, items \in CheckItems,
          db_hit \in BOOLEAN, current_route \in CheckRouteAnswers :
          /\ CheckRouteTraffic(route_data, traffic_data, items, db_hit, current_route)
          /\ UNCHANGED aux

Spec == Init /\ [][Next]_vars

----------------------------------------------------------------------------
\* main.py: start_monitoring, one thread.  schedule.every(n).minutes.do(job) makes
\* the job due n minutes from now; run_pending() runs the job, in the calling
\* thread, if it is due, and makes it due again n minutes after it has returned.
\* Time is counted in minutes and by what is left until the job is due.

\* How long one turn of update_routes' loop may take: no time worth counting, or
\* as long as the whole interval
PassMinutes == {0, UPDATE_INTERVAL_MINUTES}

\* schedule.every(...).do(self.update_routes), then the initial self.update_routes()
StartMonitoring ==
    /\ mon = "off"
    /\ UpdateRoutesBegin
    /\ mon' = "initial"
    /\ due_in' = UPDATE_INTERVAL_MINUTES
    /\ UNCHANGED <<di_used, result, response>>

\* One turn of the loop of the update_routes start_monitoring is in.  An exception
\* leaves update_routes, run_pending and start_monitoring: nothing catches it.
MonitorPassStep(traffic_data, current_route, minutes) ==
    /\ mon \in {"initial", "job"}
    /\ UpdateRoutesStep(traffic_data, current_route)
    /\ mon' = IF last'.raised # "none" THEN "dead" ELSE mon
    /\ due_in' = Max2(0, due_in - minutes)
    /\ UNCHANGED <<di_used, result, response>>

\* update_routes returns: to start_monitoring, which enters its while loop, or to
\* run_pending, which schedules the job's next run and returns to time.sleep
MonitorPassEnd ==
    /\ mon \in {"initial", "job"}
    /\ UpdateRoutesEnd
    /\ IF mon = "initial"
       THEN mon' = "loop" /\ UNCHANGED due_in
       ELSE mon' = "sleep" /\ due_in' = UPDATE_INTERVAL_MINUTES
    /\ UNCHANGED <<di_used, result, response>>

\* run_pending with a pass started whenever the job is due, wherever the
\* previous pass is
RunPendingOverlapping ==
    /\ mon \in {"initial", "job", "loop"}
    /\ IF due_in = 0
       THEN /\ pc' = "update"
            /\ iter' = DictKeys(routes)
            /\ last' = Call("update_routes", "", "begin", <<>>, "none")
            /\ mon' = "job"
            /\ UNCHANGED <<routes, route_snapshots, route_changes, traffic_history, clock>>
       ELSE /\ mon = "loop"
            /\ mon' = "sleep"
            /\ UNCHANGED <<routes, route_snapshots, route_changes, traffic_history, clock,
                           pc, iter, last>>
    /\ UNCHANGED <<due_in, di_used, result, response>>

\* schedule.run_pending(): the job is run if it is due
RunPending ==
    /\ mon = "loop"
    /\ IF due_in = 0
       THEN UpdateRoutesBegin /\ mon' = "job"
       ELSE /\ mon' = "sleep"
            /\ UNCHANGED <<routes, route_snapshots, route_changes, traffic_history, clock,
                           pc, iter, last>>
    /\ UNCHANGED <<due_in, di_used, result, response>>

\* time.sleep(60)
Sleep ==
    /\ mon = "sleep"
    /\ mon' = "loop"
    /\ due_in' = Max2(0, due_in - SLEEP_SECONDS \div 60)
    /\ UNCHANGED <<routes, route_snapshots, route_changes, traffic_history, clock,
                   pc, iter, last, di_used, result, response>>

\* Routes are added, then start_monitoring is called and never returns
NextMonitoring ==
    \/ \E call \in AddCalls, initial_route \in OsrmAnswers :
          /\ mon = "off"
          /\ AddRoute(call.route_id, call.start_coords, call.end_coords, call.bbox, initial_route)
          /\ UNCHANGED aux
    \/ StartMonitoring
    \/ \E traffic_data \in TrafficAnswers, current_route \in OsrmAnswers, minutes \in PassMinutes :
          MonitorPassStep(traffic_data, current_route, minutes)
    \/ MonitorPassEnd
    \/ RunPending
    \/ Sleep

SpecMonitoring == Init /\ [][NextMonitoring]_vars

----------------------------------------------------------------------------
\* main.py: add_route called by one thread while another is inside update_routes.
\* Nothing locks self.routes.  The loop of update_routes iterates the dict's items
\* view: each time the loop asks for the next item, the iterator compares the
\* dict's size with the size it had when the iteration began and raises
\* RuntimeError (dictionary changed size during iteration) if they differ.  A turn
\* of the loop and a call of add_route are each taken as one step.

ConcurrentAddRoute(route_id, start_coords, end_coords, bbox, initial_route) ==
    /\ add_route(route_id, start_coords, end_coords, bbox, initial_route)
    /\ UNCHANGED aux

ConcurrentPassBegin ==
    /\ UpdateRoutesBegin
    /\ di_used' = Len(routes)
    /\ UNCHANGED <<mon, due_in, result, response>>

\* for route_id, route_info in self.routes.items(): the next item and the loop
\* body for it, or the end of the loop
ConcurrentPassTurn(traffic_data, current_route) ==
    /\ pc = "update"
    /\ IF Len(routes) # di_used
       THEN /\ pc' = "idle"
            /\ last' = Call("update_routes", "", "raised", <<>>, "RuntimeError")
            /\ UNCHANGED <<routes, route_snapshots, route_changes, traffic_history, clock, iter>>
       ELSE IF iter = <<>>
       THEN UpdateRoutesEnd
       ELSE UpdateRoutesStep(traffic_data, current_route)
    /\ UNCHANGED aux

NextConcurrent ==
    \/ \E call \in AddCalls, initial_route \in OsrmAnswers :
          ConcurrentAddRoute(call.route_id, call.start_coords, call.end_coords, call.bbox,
                             initial_route)
    \/ ConcurrentPassBegin
    \/ \E traffic_data \in TrafficAnswers, current_route \in OsrmAnswers :
          ConcurrentPassTurn(traffic_data, current_route)

SpecConcurrent == Init /\ [][NextConcurrent]_vars

----------------------------------------------------------------------------
\* The estimators of api.py and main.py.  A result is what check_route_traffic
\* returns, kept by the two parts the estimators read: route_data (duration in
\* tenths of a second, distance in metres) and matched_traffic (the matched
\* samples, by their current_speed in km/h).  Seconds, km/h and percentages are
\* exact rationals: the rounding of the floats is not modelled.

Seconds(duration) == Rat(duration, 10)

RatIsPositive(a) == a.n > 0
RatLtInt(a, k) == a.n < k * a.d

RECURSIVE SumOf(_)
SumOf(s) == IF s = <<>> THEN 0 ELSE s[1] + SumOf(Tail(s))

\* [match['current_speed'] for match in matched_traffic]
TrafficSpeeds(matched_traffic) ==
    [i \in 1..Len(matched_traffic) |-> matched_traffic[i].current_speed]

\* sum(traffic_speeds) / len(traffic_speeds), of a list that is not empty
MeanSpeed(matched_traffic) ==
    Rat(SumOf(TrafficSpeeds(matched_traffic)), Len(matched_traffic))

\* the traffic-adjusted duration with the planned duration kept only for a mean
\* speed of exactly 0
TrafficDurationUnlessZero(route_data, matched_traffic) ==
    IF matched_traffic # <<>>
    THEN IF MeanSpeed(matched_traffic).n # 0
         THEN RatMulInt(RatDiv(Rat(route_data.distance, 1000), MeanSpeed(matched_traffic)), 3600)
         ELSE Seconds(route_data.duration)
    ELSE Seconds(route_data.duration)

\* (route_distance_km / avg_traffic_speed) * 3600 if avg_traffic_speed > 0, else
\* route_data['duration']; the latter too when nothing is matched
TrafficDuration(route_data, matched_traffic) ==
    IF matched_traffic # <<>>
    THEN IF RatIsPositive(MeanSpeed(matched_traffic))
         THEN RatMulInt(RatDiv(Rat(route_data.distance, 1000), MeanSpeed(matched_traffic)), 3600)
         ELSE Seconds(route_data.duration)
    ELSE Seconds(route_data.duration)

\* the percentage guarded against a traffic duration of 0 instead of a planned one
TimeDifferencePercentOfAdjusted(route_data, traffic_duration) ==
    IF traffic_duration.n # 0
    THEN RatMulInt(RatDiv(RatSub(traffic_duration, Seconds(route_data.duration)),
                          traffic_duration), 100)
    ELSE RatInt(0)

\* ((traffic_duration - duration) / duration * 100) if duration > 0 else 0
TimeDifferencePercent(route_data, traffic_duration) ==
    IF route_data.duration > 0
    THEN RatMulInt(RatDiv(RatSub(traffic_duration, Seconds(route_data.duration)),
                          Seconds(route_data.duration)), 100)
    ELSE RatInt(0)

\* _extract_traffic_adjusted_route(result): None, or the one record
extract_traffic_adjusted_route(res) ==
    IF res = None THEN None
    ELSE IF res[1].matched_traffic = <<>> THEN None
    ELSE LET route_data        == res[1].route_data
             matched_traffic   == res[1].matched_traffic
             traffic_duration  == TrafficDuration(route_data, matched_traffic)
         IN  << [ duration_seconds        |-> traffic_duration,
                  distance_meters         |-> route_data.distance,
                  average_speed_kmh       |-> MeanSpeed(matched_traffic),
                  time_difference_seconds |->
                      RatSub(traffic_duration, Seconds(route_data.duration)),
                  time_difference_percent |->
                      TimeDifferencePercent(route_data, traffic_duration),
                  traffic_segments        |-> Len(matched_traffic),
                  speed_range             |->
                      [ min_kmh |-> MinOf(TrafficSpeeds(matched_traffic)),
                        max_kmh |-> MaxOf(TrafficSpeeds(matched_traffic)) ] ] >>

\* _generate_traffic_adjusted_route_original_format(result): None, or the route
\* in the original format, kept by routes[0]'s duration and distance and by
\* traffic_metadata
generate_traffic_adjusted_route_original_format(res) ==
    IF res = None THEN None
    ELSE LET route_data        == res[1].route_data
             matched_traffic   == res[1].matched_traffic
             traffic_duration  == TrafficDuration(route_data, matched_traffic)
         IN  << [ duration         |-> traffic_duration,
                  distance         |-> route_data.distance,
                  traffic_metadata |->
                      [ original_duration         |-> Seconds(route_data.duration),
                        traffic_adjusted_duration |-> traffic_duration,
                        time_difference_seconds   |->
                            RatSub(traffic_duration, Seconds(route_data.duration)),
                        time_difference_percent   |->
                            TimeDifferencePercent(route_data, traffic_duration),
                        traffic_segments_used     |-> Len(matched_traffic),
                        average_traffic_speed_kmh |->
                            IF matched_traffic # <<>> THEN MeanSpeed(matched_traffic)
                            ELSE RatInt(0) ] ] >>

\* the delay classification with the boundary values 20 and 10 in the higher class
traffic_condition_inclusive(time_diff_pct) ==
    IF RatGeInt(time_diff_pct, 20) THEN "heavy_delay"
    ELSE IF RatGeInt(time_diff_pct, 10) THEN "moderate_delay"
    ELSE IF RatLtInt(time_diff_pct, -10) THEN "faster_than_expected"
    ELSE "normal"

\* the condition _extract_traffic_adjusted_route_simple derives from time_diff_pct
traffic_condition(time_diff_pct) ==
    IF RatGtInt(time_diff_pct, 20) THEN "heavy_delay"
    ELSE IF RatGtInt(time_diff_pct, 10) THEN "moderate_delay"
    ELSE IF RatLtInt(time_diff_pct, -10) THEN "faster_than_expected"
    ELSE "normal"

\* _extract_traffic_adjusted_route_simple(result), of a result that is not None
extract_traffic_adjusted_route_simple(res) ==
    LET traffic_adjusted == extract_traffic_adjusted_route(res)
    IN  IF traffic_adjusted = None
        THEN [ duration_seconds        |-> Seconds(res[1].route_data.duration),
               time_difference_seconds |-> RatInt(0),
               traffic_condition       |-> "no_data" ]
        ELSE LET time_diff_pct == traffic_adjusted[1].time_difference_percent
             IN  [ duration_seconds        |-> traffic_adjusted[1].duration_seconds,
                   time_difference_seconds |-> traffic_adjusted[1].time_difference_seconds,
                   time_difference_minutes |->
                       RatDiv(traffic_adjusted[1].time_difference_seconds, RatInt(60)),
                   traffic_condition       |-> traffic_condition(time_diff_pct),
                   average_speed_kmh       |-> traffic_adjusted[1].average_speed_kmh ]

\* _generate_recommendations(result): the messages, each kept by what it says
generate_recommendations(res) ==
    LET traffic_adjusted == extract_traffic_adjusted_route(res)
    IN  IF traffic_adjusted = None THEN << "no_traffic_data" >>
        ELSE LET time_diff_minutes ==
                     RatDiv(traffic_adjusted[1].time_difference_seconds, RatInt(60))
                 avg_speed == traffic_adjusted[1].average_speed_kmh
             IN  (IF RatGtInt(time_diff_minutes, 5) THEN << "longer", "depart_earlier" >>
                  ELSE IF RatLtInt(time_diff_minutes, -2) THEN << "earlier" >>
                  ELSE << "close_to_normal" >>)
                 \o (IF RatLtInt(avg_speed, 20) THEN << "heavy_traffic" >>
                     ELSE IF RatLtInt(avg_speed, 30) THEN << "moderate_traffic" >>
                     ELSE << "good_flow" >>)

\* the classification with the boundary values left in the lower bucket
assess_traffic_condition_strict(speed_kmh) ==
    IF RatGtInt(speed_kmh, 50) THEN "good_flow"
    ELSE IF RatGtInt(speed_kmh, 30) THEN "moderate_traffic"
    ELSE IF RatGtInt(speed_kmh, 15) THEN "heavy_traffic"
    ELSE "congested"

\* _assess_traffic_condition(speed_kmh)
assess_traffic_condition(speed_kmh) ==
    IF RatGeInt(speed_kmh, 50) THEN "good_flow"
    ELSE IF RatGeInt(speed_kmh, 30) THEN "moderate_traffic"
    ELSE IF RatGeInt(speed_kmh, 15) THEN "heavy_traffic"
    ELSE "congested"

\* _show_detailed_match_info(match): the condition it prints
show_detailed_match_info(match) ==
    IF match.current_speed >= 50 THEN "Good flow"
    ELSE IF match.current_speed >= 30 THEN "Moderate traffic"
    ELSE IF match.current_speed >= 15 THEN "Heavy traffic"
    ELSE "Congested"

\* The results the estimators are applied to
EstimatorRoutes ==
    { [duration |-> d, distance |-> m] :
        d \in {0, 3600, 6003}, m \in {0, 900, 1000, 1100, 1200, 9704} }

EstimatorMatches ==
    { <<>>, << Match(0) >>, << Match(-5) >>, << Match(-5), Match(5) >>,
      << Match(10) >>, << Match(15) >>, << Match(20) >>, << Match(30) >>,
      << Match(35) >>, << Match(50) >>, << Match(55) >>,
      << Match(14), Match(15) >>, << Match(29), Match(30) >>, << Match(49), Match(50) >>,
      << Match(10), Match(36), Match(62) >> }

EstimatorResults ==
    { << [route_data |-> r, matched_traffic |-> m] >> :
        r \in EstimatorRoutes, m \in EstimatorMatches }

InitEstimator ==
    /\ routes = <<>>
    /\ route_snapshots = <<>>
    /\ route_changes = <<>>
    /\ traffic_history = 0
    /\ clock = 1
    /\ pc = "idle"
    /\ iter = <<>>
    /\ last = Call("init", "", "", <<>>, "none")
    /\ mon = "off"
    /\ due_in = 0
    /\ di_used = 0
    /\ result \in EstimatorResults
    /\ response = None

\* What a function returned: None, or the one value in a list
Returned(fn, value) == << [fn |-> fn, value |-> value] >>

Estimate(value) ==
    /\ response' = value
    /\ UNCHANGED <<routes, route_snapshots, route_changes, traffic_history, clock, pc, iter,
                   last, mon, due_in, di_used, result>>

NextEstimator ==
    \/ Estimate(Returned("_extract_traffic_adjusted_route",
                         extract_traffic_adjusted_route(result)))
    \/ Estimate(Returned("_generate_traffic_adjusted_route_original_format",
                         generate_traffic_adjusted_route_original_format(result)))
    \/ Estimate(Returned("_extract_traffic_adjusted_route_simple",
                         << extract_traffic_adjusted_route_simple(result) >>))
    \/ Estimate(Returned("_generate_recommendations", generate_recommendations(result)))
    \/ /\ result[1].matched_traffic # <<>>
       /\ Estimate(Returned("_assess_traffic_condition",
                            << assess_traffic_condition(MeanSpeed(result[1].matched_traffic)) >>))
    \/ /\ result[1].matched_traffic # <<>>
       /\ Estimate(Returned("_show_detailed_match_info",
                            << show_detailed_match_info(result[1].matched_traffic[1]) >>))

SpecEstimator == InitEstimator /\ [][NextEstimator]_vars

----------------------------------------------------------------------------
\* api.py: the two POST endpoints.  A JSON object is a record (a key is present
\* when it is in the record's domain; {} is the empty function), a JSON array a
\* sequence.  request.get_json() is None for a request without a body, else the
\* parsed body, kept in a list.  The isinstance checks are not modelled: every
\* value here has the type its key is read with.

Has(d, key) == DOMAIN d # {} /\ key \in DOMAIN d
Falsy(d) == DOMAIN d = {}

\* The waypoints of the requests, coordinates as (latitude, longitude)
S1 == <<37578, 126813>>
S2 == <<37538, 126896>>
S3 == <<37550, 126850>>
Location(p) == [latitude |-> p[1], longitude |-> p[2]]
RouteWaypoint(p) == [waypointType |-> "break", location |-> Location(p)]
SimpleWaypoint(p) == [latitude |-> p[1], longitude |-> p[2]]

\* routes[0] of the scenario: 600.3 s, 9703.7 m to the metre
PlannedRoute == [duration |-> 6003, distance |-> 9704, geometry |-> GeoA]

RouteData(legs) == [resultCode |-> "Ok", result |-> legs]
Body(route_data) == << [route_data |-> route_data] >>

\* The bodies posted to /analyze-route
AnalyzeBodies ==
    << None,
       << <<>> >>,
       << [route_name |-> "commute"] >>,
       Body(<<>>),
       Body([resultCode |-> "Ok"]),
       Body(RouteData(<<>>)),
       Body(RouteData(<< [routes |-> <<PlannedRoute>>] >>)),
       Body(RouteData(<< [waypoints |-> <<RouteWaypoint(S1), RouteWaypoint(S2)>>] >>)),
       Body(RouteData(<< [waypoints |-> <<>>, routes |-> <<PlannedRoute>>] >>)),
       Body(RouteData(<< [waypoints |-> <<RouteWaypoint(S1)>>, routes |-> <<PlannedRoute>>] >>)),
       Body(RouteData(<< [waypoints |-> <<RouteWaypoint(S1), [name |-> "end"]>>,
                          routes |-> <<PlannedRoute>>] >>)),
       Body(RouteData(<< [waypoints |-> <<[location |-> [longitude |-> S1[2]]], RouteWaypoint(S2)>>,
                          routes |-> <<PlannedRoute>>] >>)),
       Body(RouteData(<< [waypoints |-> <<RouteWaypoint(S1), [location |-> [latitude |-> S2[1]]]>>,
                          routes |-> <<PlannedRoute>>] >>)),
       Body(RouteData(<< [waypoints |-> <<RouteWaypoint(S1), RouteWaypoint(S2)>>,
                          routes |-> <<>>] >>)),
       Body(RouteData(<< [waypoints |-> <<RouteWaypoint(S1), RouteWaypoint(S2)>>,
                          routes |-> << [distance |-> 9704] >>] >>)),
       Body(RouteData(<< [waypoints |-> <<RouteWaypoint(S1), RouteWaypoint(S2)>>,
                          routes |-> << [duration |-> 6003] >>] >>)),
       Body(RouteData(<< [waypoints |-> <<RouteWaypoint(S1), RouteWaypoint(S2)>>,
                          routes |-> << <<>> >>] >>)),
       Body(RouteData(<< [waypoints |-> <<RouteWaypoint(S1), RouteWaypoint(S2)>>,
                          routes |-> <<PlannedRoute>>] >>)),
       << [ route_name |-> "commute",
            route_data |-> RouteData(<< [waypoints |-> <<RouteWaypoint(S1), RouteWaypoint(S3),
                                                          RouteWaypoint(S2)>>,
                                         routes |-> <<PlannedRoute, PlannedRoute>>] >>) ] >> >>

\* The bodies posted to /analyze-route-simple
SimpleBodies ==
    << None,
       << <<>> >>,
       << [route_name |-> "commute"] >>,
       << [waypoints |-> <<>>] >>,
       << [waypoints |-> <<SimpleWaypoint(S1)>>] >>,
       << [waypoints |-> <<SimpleWaypoint(S1), [latitude |-> S2[1]]>>] >>,
       << [waypoints |-> <<SimpleWaypoint(S1), SimpleWaypoint(S2)>>] >>,
       << [waypoints |-> <<SimpleWaypoint(S1), SimpleWaypoint(S3), SimpleWaypoint(S2)>>,
           route_name |-> "commute"] >> >>

\* What the routing engine answers to a request: nothing, a route of duration 0,
\* the route of the scenario
ApiRouteAnswers ==
    { None,
      << [duration |-> 0, distance |-> 9704, geometry |-> GeoA] >>,
      << PlannedRoute >> }

\* What the traffic provider answers to a request: the payload, its records, and
\* whether the network database places them on the route
Traffic(traffic_data, items, db_hit) ==
    [traffic_data |-> traffic_data, items |-> items, db_hit |-> db_hit]
ApiTrafficAnswers ==
    { Traffic(NoData, <<>>, FALSE), Traffic("empty", <<>>, FALSE),
      Traffic("list", <<Item(36)>>, FALSE), Traffic("body", <<>>, FALSE),
      Traffic("body", <<Item(36)>>, FALSE), Traffic("body", <<Item(36)>>, TRUE),
      Traffic("body", <<Item(0), Item(20)>>, TRUE) }

\* _validate_route_data without its check of routes[0]'s duration and distance
validate_route_data_any_route(route_data) ==
    IF ~Has(route_data, "result") THEN FALSE
    ELSE IF Len(route_data.result) = 0 THEN FALSE
    ELSE LET first == route_data.result[1]
         IN  IF ~Has(first, "waypoints") \/ ~Has(first, "routes") THEN FALSE
             ELSE IF Len(first.waypoints) < 2 THEN FALSE
             ELSE IF \E i \in 1..Len(first.waypoints) :
                        \/ ~Has(first.waypoints[i], "location")
                        \/ ~Has(first.waypoints[i].location, "latitude")
                        \/ ~Has(first.waypoints[i].location, "longitude")
             THEN FALSE
             ELSE IF Len(first.routes) = 0 THEN FALSE
             ELSE TRUE

\* _validate_route_data(route_data)
validate_route_data(route_data) ==
    IF ~Has(route_data, "result") THEN FALSE
    ELSE IF Len(route_data.result) = 0 THEN FALSE
    ELSE LET first == route_data.result[1]
         IN  IF ~Has(first, "waypoints") \/ ~Has(first, "routes") THEN FALSE
             ELSE IF Len(first.waypoints) < 2 THEN FALSE
             ELSE IF \E i \in 1..Len(first.waypoints) :
                        \/ ~Has(first.waypoints[i], "location")
                        \/ ~Has(first.waypoints[i].location, "latitude")
                        \/ ~Has(first.waypoints[i].location, "longitude")
             THEN FALSE
             ELSE IF Len(first.routes) = 0 THEN FALSE
             ELSE IF \/ ~Has(first.routes[1], "duration")
                     \/ ~Has(first.routes[1], "distance")
             THEN FALSE
             ELSE TRUE

\* What extract_waypoints_from_route_data reads in route data that passed the
\* validation: the locations of the first and of the last waypoint of result[0]
RouteDataWaypoints(route_data) ==
    LET waypoints == route_data.result[1].waypoints
    IN  << << waypoints[1].location.latitude, waypoints[1].location.longitude >>,
           << waypoints[Len(waypoints)].location.latitude,
              waypoints[Len(waypoints)].location.longitude >> >>

\* len(waypoints) < 1
TooFewWaypointsUnlessNone(waypoints) == Len(waypoints) < 1

\* len(waypoints) < 2
TooFewWaypoints(waypoints) == Len(waypoints) < 2

\* A response: the status code, the keys of the JSON object returned, its
\* "status", the exception caught at the boundary, the calls made to the traffic
\* provider, the persistence layer and the routing engine, and for a success the
\* values returned (json).  request and upstream keep what was asked and what
\* the routing engine and the traffic provider answer when asked.
Respond(endpoint, request, upstream, code, status, keys, caught, calls, json) ==
    << [ endpoint |-> endpoint, request |-> request, upstream |-> upstream,
         code |-> code, status |-> status, keys |-> keys, caught |-> caught,
         calls |-> calls, json |-> json ] >>

Upstream(osrm_route, traffic_data, items, db_hit, current_route) ==
    [ osrm_route |-> osrm_route, traffic_data |-> traffic_data, items |-> items,
      db_hit |-> db_hit, current_route |-> current_route ]

\* the planned average speed with a guard on the duration, 0 for a duration of 0
average_speed_kmh_guarded(route_data) ==
    IF route_data.duration = 0
    THEN [raised |-> "none", value |-> RatInt(0)]
    ELSE [ raised |-> "none",
           value  |-> RatDiv(Rat(route_data.distance, 1000),
                             RatDiv(Seconds(route_data.duration), RatInt(3600))) ]

\* (result['route_data']['distance']/1000) / (result['route_data']['duration']/3600)
average_speed_kmh(route_data) ==
    IF route_data.duration = 0
    THEN [raised |-> "ZeroDivisionError", value |-> RatInt(0)]
    ELSE [ raised |-> "none",
           value  |-> RatDiv(Rat(route_data.distance, 1000),
                             RatDiv(Seconds(route_data.duration), RatInt(3600))) ]

\* analyze_route(), as the response it returns
analyze_route(request, traffic_data, items, db_hit, current_route) ==
    LET data     == AnalyzeBodies[request]
        upstream == Upstream(None, traffic_data, items, db_hit, current_route)
        Error(code, keys, caught, calls) ==
            Respond("/analyze-route", request, upstream, code, "error",
                    {"error", "status"} \cup keys, caught, calls, None)
    IN  IF data = None THEN Error(400, {}, "none", <<>>)
        ELSE IF Falsy(data[1]) THEN Error(400, {}, "none", <<>>)
        ELSE IF ~Has(data[1], "route_data") THEN Error(400, {}, "none", <<>>)
        ELSE IF Falsy(data[1].route_data) THEN Error(400, {}, "none", <<>>)
        ELSE IF ~validate_route_data(data[1].route_data)
        THEN Error(400, {"expected_format"}, "none", <<>>)
        ELSE LET out == check_route_traffic(RouteDataWaypoints(data[1].route_data),
                                            traffic_data, items, db_hit, current_route)
             IN  IF out.raised # "none" THEN Error(500, {}, out.raised, out.calls)
                 ELSE IF out.value = None THEN Error(500, {"route_name"}, "none", out.calls)
                 ELSE IF average_speed_kmh(out.value[1].route_data).raised # "none"
                 THEN Error(500, {}, average_speed_kmh(out.value[1].route_data).raised,
                            out.calls)
                 ELSE Respond("/analyze-route", request, upstream, 200, "success",
                              {"status", "route_name", "timestamp", "analysis",
                               "traffic_adjusted_route",
                               "traffic_adjusted_route_original_format", "recommendations"},
                              "none", out.calls,
                              << [ analysis |->
                                     [ original_route |->
                                         [ duration_seconds  |->
                                               Seconds(out.value[1].route_data.duration),
                                           distance_meters   |->
                                               out.value[1].route_data.distance,
                                           average_speed_kmh |->
                                               average_speed_kmh(out.value[1].route_data).value ],
                                       traffic_data |->
                                         [ segments_analyzed |->
                                               Len(out.value[1].matched_traffic) ] ],
                                   traffic_adjusted_route |->
                                       extract_traffic_adjusted_route(out.value),
                                   traffic_adjusted_route_original_format |->
                                       generate_traffic_adjusted_route_original_format(out.value),
                                   recommendations |->
                                       generate_recommendations(out.value) ] >>)

\* analyze_route_simple(), as the response it returns.  The OSRM answer handed to
\* check_route_traffic has the two waypoints the route was asked for.
analyze_route_simple(request, osrm_route, traffic_data, items, db_hit, current_route) ==
    LET data     == SimpleBodies[request]
        upstream == Upstream(osrm_route, traffic_data, items, db_hit, current_route)
        asked    == << "get_route_from_osrm" >>
        Error(code, keys, caught, calls) ==
            Respond("/analyze-route-simple", request, upstream, code, "error",
                    {"error", "status"} \cup keys, caught, calls, None)
    IN  IF data = None THEN Error(400, {"expected_format"}, "none", <<>>)
        ELSE IF Falsy(data[1]) THEN Error(400, {"expected_format"}, "none", <<>>)
        ELSE IF ~Has(data[1], "waypoints") THEN Error(400, {"expected_format"}, "none", <<>>)
        ELSE IF TooFewWaypoints(data[1].waypoints) THEN Error(400, {}, "none", <<>>)
        ELSE IF \E i \in 1..Len(data[1].waypoints) :
                   \/ ~Has(data[1].waypoints[i], "longitude")
                   \/ ~Has(data[1].waypoints[i], "latitude")
        THEN Error(500, {}, "KeyError", <<>>)
        ELSE IF osrm_route = None THEN Error(400, {}, "none", asked)
        ELSE LET waypoints == data[1].waypoints
                 last_one  == waypoints[Len(waypoints)]
                 out == check_route_traffic(
                            << << waypoints[1].latitude, waypoints[1].longitude >>,
                               << last_one.latitude, last_one.longitude >> >>,
                            traffic_data, items, db_hit, current_route)
             IN  IF out.raised # "none" THEN Error(500, {}, out.raised, asked \o out.calls)
                 ELSE IF out.value = None THEN Error(500, {}, "none", asked \o out.calls)
                 ELSE Respond("/analyze-route-simple", request, upstream, 200, "success",
                              {"status", "route_name", "original_duration_seconds",
                               "original_distance_meters", "traffic_segments_found",
                               "traffic_adjusted_route",
                               "traffic_adjusted_route_original_format"},
                              "none", asked \o out.calls,
                              << [ original_duration_seconds |->
                                       Seconds(out.value[1].route_data.duration),
                                   original_distance_meters |->
                                       out.value[1].route_data.distance,
                                   traffic_segments_found |->
                                       Len(out.value[1].matched_traffic),
                                   traffic_adjusted_route |->
                                       extract_traffic_adjusted_route_simple(out.value),
                                   traffic_adjusted_route_original_format |->
                                       generate_traffic_adjusted_route_original_format(out.value) ] >>)

\* POST /analyze-route: the response, and the traffic data stored on the way
AnalyzeRoute(request, traffic_data, items, db_hit, current_route) ==
    /\ pc = "idle"
    /\ response' = analyze_route(request, traffic_data, items, db_hit, current_route)
    /\ traffic_history' =
           IF Stored(response'[1])
           THEN store_traffic_data(traffic_history, traffic_data)
           ELSE traffic_history
    /\ UNCHANGED <<routes, route_snapshots, route_changes, clock, pc, iter, last,
                   mon, due_in, di_used, result>>
    /\ WithinBounds

\* POST /analyze-route-simple
AnalyzeRouteSimple(request, osrm_route, traffic_data, items, db_hit, current_route) ==
    /\ pc = "idle"
    /\ response' =
           analyze_route_simple(request, osrm_route, traffic_data, items, db_hit, current_route)
    /\ traffic_history' =
           IF Stored(response'[1])
           THEN store_traffic_data(traffic_history, traffic_data)
           ELSE traffic_history
    /\ UNCHANGED <<routes, route_snapshots, route_changes, clock, pc, iter, last,
                   mon, due_in, di_used, result>>
    /\ WithinBounds

NextApi ==
    \/ \E request \in DOMAIN AnalyzeBodies, traffic \in ApiTrafficAnswers,
          current_route \in ApiRouteAnswers :
          AnalyzeRoute(request, traffic.traffic_data, traffic.items, traffic.db_hit,
                       current_route)
    \/ \E request \in DOMAIN SimpleBodies, osrm_route \in ApiRouteAnswers,
          traffic \in ApiTrafficAnswers, current_route \in ApiRouteAnswers :
          AnalyzeRouteSimple(request, osrm_route, traffic.traffic_data, traffic.items,
                             traffic.db_hit, current_route)

SpecApi == Init /\ [][NextApi]_vars

----------------------------------------------------------------------------
\* The readers of a traffic payload: _match_traffic_geographically and
\* _analyze_traffic_data of main.py, match_traffic_to_network of
\* route_processor.py, and check_route_traffic as a whole.  The payload is kept in
\* result as its shape and its records.

\* data_items of _analyze_traffic_data, which returns at once for an empty payload
\* and reads keys() of any other
data_items(traffic_data, items) ==
    IF traffic_data \in {"body", "data", "response", "result"} THEN items ELSE <<>>

\* speeds of _analyze_traffic_data: float(item['speed']) of the records that have
\* the key, the ones float() refuses left out
analyzed_speeds(traffic_data, items) ==
    LET numbers == SelectSeq(data_items(traffic_data, items),
                             LAMBDA item : item.speed.kind = "number")
    IN  [i \in 1..Len(numbers) |-> numbers[i].speed.value]

\* match_traffic_to_network(traffic_data), when traffic_data has get and every
\* link_id is in moct_link: the records of traffic_data.get('data', []) that have a
\* linkId, with item.get('speed', 0) as current_speed
match_traffic_to_network(traffic_data, items) ==
    LET linked == SelectSeq(IF traffic_data = "data" THEN items ELSE <<>>,
                            LAMBDA item : item.linkId)
    IN  [ i \in 1..Len(linked) |->
            [ current_speed |-> IF linked[i].speed.kind = "missing" THEN Number(0)
                                ELSE linked[i].speed ] ]

\* The payloads the readers are applied to
PayloadShapes == {"body", "data", "response", "result", "list"}
PayloadItems ==
    { <<>>,
      << Item(36) >>,
      << Item(36), Item(20) >>,
      << Record(FALSE, Number(50), Number(60)), Item(36) >>,
      << Record(TRUE, Missing, Number(60)), Item(20) >>,
      << Item(36), Record(TRUE, Number(20), Missing) >>,
      << Record(TRUE, NotANumber, Number(60)), Item(20) >>,
      << Item(36), Record(TRUE, Number(20), NotANumber) >> }

InitPayload ==
    /\ routes = <<>>
    /\ route_snapshots = <<>>
    /\ route_changes = <<>>
    /\ traffic_history = 0
    /\ clock = 1
    /\ pc = "idle"
    /\ iter = <<>>
    /\ last = Call("init", "", "", <<>>, "none")
    /\ mon = "off"
    /\ due_in = 0
    /\ di_used = 0
    /\ result \in { << [traffic_data |-> shape, items |-> items] >> :
                      shape \in PayloadShapes, items \in PayloadItems }
    /\ response = None

\* What a reader made of the payload: the exception it raised, or the samples it
\* returned
Read(raised, samples) ==
    << [raised |-> raised, samples |-> IF raised = "none" THEN samples ELSE <<>>] >>

NextPayload ==
    \/ Estimate(Returned("_match_traffic_geographically",
           Read(match_traffic_geographically_raises(result[1].traffic_data, result[1].items),
                match_traffic_geographically(result[1].traffic_data, result[1].items))))
    \/ Estimate(Returned("_analyze_traffic_data",
           Read(analyze_traffic_data_raises(result[1].traffic_data),
                analyzed_speeds(result[1].traffic_data, result[1].items))))
    \/ Estimate(Returned("match_traffic_to_network",
           Read(calculate_updated_route_raises(result[1].traffic_data),
                match_traffic_to_network(result[1].traffic_data, result[1].items))))
    \/ \E db_hit \in BOOLEAN :
          LET out == check_route_traffic(<<S1, S2>>, result[1].traffic_data, result[1].items,
                                         db_hit, << PlannedRoute >>)
          IN  Estimate(Returned("check_route_traffic",
                  Read(out.raised,
                       IF out.value = None THEN <<>> ELSE out.value[1].matched_traffic)))

SpecPayload == InitPayload /\ [][NextPayload]_vars

----------------------------------------------------------------------------
\* Name-based matching and the route-level totals: _analyze_route_geometry_coverage
\* and _print_traffic_adjusted_route of main.py, next to
\* _extract_traffic_adjusted_route of api.py.  A name is the sequence of its
\* characters; a step is a step of the route's legs, a sample a matched sample
\* with its road_name.

\* a in b, of two Python strings
Contains(a, b) ==
    \E i \in 0..(Len(b) - Len(a)) : SubSeq(b, i + 1, i + Len(a)) = a

Step(name, distance, duration) == [name |-> name, distance |-> distance, duration |-> duration]
Sample(road_name, speed) == [road_name |-> road_name, current_speed |-> speed]

\* _analyze_route_geometry_coverage: matching_segments of a step
matching_segments(step, matches) ==
    SelectSeq(matches, LAMBDA match : step.name # <<>> /\ Contains(step.name, match.road_name))

\* _print_traffic_adjusted_route: matched_traffic of a step, which is
\* step_traffic_mapping[step_name] when it is not empty
step_traffic(step, traffic_matches) ==
    SelectSeq(traffic_matches,
              LAMBDA match : \/ step.name # <<>> /\ Contains(step.name, match.road_name)
                             \/ match.road_name # <<>> /\ Contains(match.road_name, step.name))

RatAdd(a, b) == Rat(a.n * b.d + b.n * a.d, a.d * b.d)

\* traffic_time of a step: (step_distance / 1000) / avg_traffic_speed * 3600 if the
\* step is in step_traffic_mapping and avg_traffic_speed > 0, else step_duration
traffic_time(step, traffic_matches) ==
    LET segments == step_traffic(step, traffic_matches)
    IN  IF segments # <<>> /\ RatIsPositive(MeanSpeed(segments))
        THEN RatMulInt(RatDiv(Rat(step.distance, 1000), MeanSpeed(segments)), 3600)
        ELSE Seconds(step.duration)

\* total_traffic_time over route_steps
RECURSIVE total_traffic_time(_, _)
total_traffic_time(route_steps, traffic_matches) ==
    IF route_steps = <<>> THEN RatInt(0)
    ELSE RatAdd(traffic_time(route_steps[1], traffic_matches),
                total_traffic_time(Tail(route_steps), traffic_matches))

\* _print_traffic_adjusted_route(route_info, traffic_matches), by the
\* traffic_adjusted part of what it prints.  The planned average speed is printed
\* first, whatever the duration; with no traffic match nothing else is printed.
print_traffic_adjusted_route(route_info, traffic_matches) ==
    IF route_info.duration = 0 THEN Read("ZeroDivisionError", <<>>)
    ELSE IF traffic_matches = <<>> THEN Read("none", <<>>)
    ELSE Read("none",
              << [ estimated_duration_s |->
                       total_traffic_time(route_info.steps, traffic_matches),
                   time_difference_s    |->
                       RatSub(total_traffic_time(route_info.steps, traffic_matches),
                              Seconds(route_info.duration)),
                   time_difference_pct  |->
                       RatMulInt(RatDiv(RatSub(total_traffic_time(route_info.steps,
                                                                  traffic_matches),
                                               Seconds(route_info.duration)),
                                        Seconds(route_info.duration)), 100) ] >>)

\* The steps and the samples the matchers are applied to
MatcherSteps ==
    { <<>>,
      << Step(<<"a", "b">>, 2000, 2400) >>,
      << Step(<<"A">>, 2000, 2400) >>,
      << Step(<<"a">>, 1000, 1200), Step(<<"c">>, 1000, 1200) >>,
      << Step(<<"a", "b">>, 1000, 1200), Step(<<>>, 1000, 1200) >>,
      << Step(<<"a">>, 1000, 1200), Step(<<"a", "b">>, 1000, 1200) >>,
      << Step(<<"a">>, 2000, 0) >> }
MatcherSamples ==
    { <<>>,
      << Sample(<<"a">>, 20) >>,
      << Sample(<<"a", "b", "c">>, 30) >>,
      << Sample(<<>>, 40) >>,
      << Sample(<<"d">>, 50) >>,
      << Sample(<<"a", "b">>, 0) >>,
      << Sample(<<"a">>, 20), Sample(<<"c">>, 60) >> }
\* a route of 2000 m whose duration is the sum of the durations of its steps; a
\* route without steps has any duration
RECURSIVE StepsDuration(_)
StepsDuration(steps) ==
    IF steps = <<>> THEN 0 ELSE steps[1].duration + StepsDuration(Tail(steps))
MatcherRoutes ==
    { [duration |-> StepsDuration(steps), distance |-> 2000, steps |-> steps] :
        steps \in MatcherSteps }
    \cup { [duration |-> 2400, distance |-> 2000, steps |-> <<>>] }

InitMatcher ==
    /\ routes = <<>>
    /\ route_snapshots = <<>>
    /\ route_changes = <<>>
    /\ traffic_history = 0
    /\ clock = 1
    /\ pc = "idle"
    /\ iter = <<>>
    /\ last = Call("init", "", "", <<>>, "none")
    /\ mon = "off"
    /\ due_in = 0
    /\ di_used = 0
    /\ result \in { << [route_data |-> route_data, matched_traffic |-> samples] >> :
                      route_data \in MatcherRoutes, samples \in MatcherSamples }
    /\ response = None

NextMatcher ==
    \/ Estimate(Returned("_analyze_route_geometry_coverage",
           Read("none", [ i \in 1..Len(result[1].route_data.steps) |->
                            matching_segments(result[1].route_data.steps[i],
                                              result[1].matched_traffic) ])))
    \/ /\ result[1].route_data.duration > 0
       /\ result[1].matched_traffic # <<>>
       /\ Estimate(Returned("step_traffic_mapping",
              Read("none", [ i \in 1..Len(result[1].route_data.steps) |->
                               step_traffic(result[1].route_data.steps[i],
                                            result[1].matched_traffic) ])))
    \/ Estimate(Returned("_print_traffic_adjusted_route",
           print_traffic_adjusted_route(result[1].route_data, result[1].matched_traffic)))
    \/ Estimate(Returned("_extract_traffic_adjusted_route",
                         extract_traffic_adjusted_route(result)))

SpecMatcher == InitMatcher /\ [][NextMatcher]_vars

----------------------------------------------------------------------------
\* Vocabulary of the properties.  The log of a route id is read here by position:
\* rows are inserted with increasing timestamps.

Log(r) == SelectSeq(route_snapshots, LAMBDA row : row.route_id = r)
Newer(r) == Log(r)[Len(Log(r))]
Older(r) == Log(r)[Len(Log(r)) - 1]

DurationDelta(r) == Abs(Newer(r).duration_seconds - Older(r).duration_seconds)

\* |newer speed - older speed| against the threshold, cross-multiplied
SpeedDeltaNum(r) ==
    Abs(Newer(r).avg_speed.n * Older(r).avg_speed.d - Older(r).avg_speed.n * Newer(r).avg_speed.d)
SpeedDeltaDen(r) == Newer(r).avg_speed.d * Older(r).avg_speed.d
SpeedAbove(r) == SpeedDeltaNum(r) > SPEED_THRESHOLD * SpeedDeltaDen(r)
SpeedBelow(r) == SpeedDeltaNum(r) < SPEED_THRESHOLD * SpeedDeltaDen(r)

\* The call that acted last ran detect_changes(r) on the log as it is now, and
\* the log held two snapshots of r at least
Detected(r) ==
    /\ last.route_id = r
    /\ \/ last.op = "detect_changes"
       \/ last.op = "update_routes" /\ last.branch = "updated"
       \/ last.op = "update_routes" /\ last.raised = "ZeroDivisionError"
    /\ Len(Log(r)) >= 2

EventsOf(type) == SelectSeq(last.changes, LAMBDA c : c.type = type)

\* A metric strictly above its threshold has 0 as its older value
ZeroBase(r) ==
    \/ DurationDelta(r) > DURATION_THRESHOLD /\ Older(r).duration_seconds = 0
    \/ SpeedAbove(r) /\ Older(r).avg_speed.n = 0

IsPrefix(a, b) == Len(a) <= Len(b) /\ SubSeq(b, 1, Len(a)) = a

Least(S) == CHOOSE x \in S : \A y \in S : x <= y
Greatest(S) == CHOOSE x \in S : \A y \in S : x >= y
GeometryBox(g) ==
    LET lngs == { g[i][1] : i \in DOMAIN g }
        lats == { g[i][2] : i \in DOMAIN g }
    IN  << Least(lngs) - BBOX_BUFFER, Greatest(lngs) + BBOX_BUFFER,
           Least(lats) - BBOX_BUFFER, Greatest(lats) + BBOX_BUFFER >>

----------------------------------------------------------------------------
\* C1: in update_routes a failure while processing one route id never aborts the
\* pass: when update_routes is over, no route id that was in the registry when the
\* pass began is left unvisited.
C1_PassNeverAborts ==
    (pc = "idle" /\ last.op = "update_routes") => iter = <<>>

\* C2: detect_changes(route_id) returns an empty list and persists no change event
\* whenever fewer than two snapshots exist for that route id, however many exist
\* for other route ids.
C2_FewerThanTwoSnapshots ==
    [][ \A r \in RouteIds :
          (DetectChanges(r) /\ Len(Log(r)) < 2)
          => /\ last'.raised = "none"
             /\ last'.changes = <<>>
             /\ route_changes' = route_changes ]_vars

C2_Witness ==
    /\ last.op = "detect_changes"
    /\ last.route_id = "r1"
    /\ Len(Log("r1")) < 2
    /\ Len(route_snapshots) >= 2

\* C3 as stated: detect_changes emits exactly one event for a metric whenever the
\* absolute difference is at or above the threshold, exactly 30 s and exactly 2
\* included.  Stated for the calls that return.
C3_AtOrAboveThreshold ==
    \A r \in RouteIds :
        (Detected(r) /\ last.raised = "none")
        => /\ DurationDelta(r) >= DURATION_THRESHOLD => Len(EventsOf("duration")) = 1
           /\ ~SpeedBelow(r) => Len(EventsOf("avg_speed")) = 1

\* C3 as amended: detect_changes emits exactly one event for a metric whose
\* absolute difference is strictly above the threshold and none for a metric whose
\* difference is exactly the threshold or less; when a metric strictly above its
\* threshold has 0 as its older value the call raises ZeroDivisionError instead and
\* emits nothing.
C3_StrictlyAboveThreshold ==
    \A r \in RouteIds :
        Detected(r)
        => IF ZeroBase(r)
           THEN last.raised = "ZeroDivisionError" /\ last.changes = <<>>
           ELSE /\ last.raised = "none"
                /\ Len(EventsOf("duration")) =
                       (IF DurationDelta(r) > DURATION_THRESHOLD THEN 1 ELSE 0)
                /\ Len(EventsOf("avg_speed")) = (IF SpeedAbove(r) THEN 1 ELSE 0)

C3_Witness ==
    \E r \in RouteIds :
        /\ Detected(r)
        /\ DurationDelta(r) = DURATION_THRESHOLD
        /\ SpeedAbove(r)
        /\ Len(last.changes) = 1
        /\ last.changes[1].type = "avg_speed"

\* C4: detect_changes emits no event for a metric whose absolute difference is
\* strictly below its threshold, and the two metrics are decided independently:
\* in a call that returns, a metric below its threshold does not keep the other
\* metric, above its own, from getting its one event.
C4_BelowThreshold ==
    \A r \in RouteIds :
        Detected(r)
        => /\ DurationDelta(r) < DURATION_THRESHOLD => EventsOf("duration") = <<>>
           /\ SpeedBelow(r) => EventsOf("avg_speed") = <<>>
           /\ last.raised = "none"
              => /\ (DurationDelta(r) < DURATION_THRESHOLD /\ SpeedAbove(r))
                    => (Len(last.changes) = 1 /\ last.changes[1].type = "avg_speed")
                 /\ (SpeedBelow(r) /\ DurationDelta(r) > DURATION_THRESHOLD)
                    => (Len(last.changes) = 1 /\ last.changes[1].type = "duration")

C4_Witness ==
    \E r \in RouteIds :
        /\ Detected(r)
        /\ SpeedBelow(r)
        /\ DurationDelta(r) > DURATION_THRESHOLD
        /\ Newer(r).duration_seconds < Older(r).duration_seconds
        /\ Len(last.changes) = 1

\* C5: detect_changes never raises a division error, also when the older of the
\* two most recent snapshots has duration 0 or average speed 0.
C5_NoDivisionError ==
    last.op \in {"detect_changes", "update_routes"} => last.raised # "ZeroDivisionError"

\* C6: the two most recent snapshots of "r1" have durations 500 and 560 and the
\* same distance.
C6_Scenario ==
    /\ Detected("r1")
    /\ Older("r1").duration_seconds = 500
    /\ Newer("r1").duration_seconds = 560
    /\ Older("r1").distance_meters = Newer("r1").distance_meters

C6_DurationEvent ==
    [ type              |-> "duration",
      old_value         |-> RatInt(500),
      new_value         |-> RatInt(560),
      percentage_change |-> RatInt(12) ]

\* C6 as stated: in that scenario detect_changes("r1") returns exactly one change
\* event, the duration event with old_value 500, new_value 560, percentage_change
\* 12.0, and no avg_speed event.
C6_ExactlyOneEvent ==
    C6_Scenario => (last.raised = "none" /\ last.changes = << C6_DurationEvent >>)

\* C6 as amended: in that scenario detect_changes("r1") returns the duration event
\* (500, 560, 12.0) first, and an avg_speed event after it exactly when the two
\* recorded average speeds differ by more than 2.
C6_DurationEventFirst ==
    C6_Scenario
    => /\ last.raised = "none"
       /\ Len(last.changes) = (IF SpeedAbove("r1") THEN 2 ELSE 1)
       /\ last.changes[1] = C6_DurationEvent
       /\ SpeedAbove("r1") => last.changes[2].type = "avg_speed"

C6_Witness ==
    C6_Scenario /\ last.changes = << C6_DurationEvent >>

\* C7: add_route adds the entry {origin, destination, bbox, last_route} under
\* route_id and appends exactly one snapshot for route_id if and only if the route
\* client returns a route; the stored bbox is the supplied one, or the one derived
\* from the route geometry when none is supplied; when the route client fails,
\* neither the registry nor the snapshot log changes.
C7_AddRoute ==
    [][ \A call \in AddCalls, initial_route \in OsrmAnswers :
          AddRoute(call.route_id, call.start_coords, call.end_coords, call.bbox, initial_route)
          => IF initial_route # None
             THEN /\ DictHas(routes', call.route_id)
                  /\ DictGet(routes', call.route_id) =
                        [ route_id      |-> call.route_id,
                          start_coords  |-> call.start_coords,
                          end_coords    |-> call.end_coords,
                          bbox          |-> IF call.bbox = None
                                            THEN GeometryBox(initial_route[1].geometry)
                                            ELSE call.bbox,
                          current_route |-> initial_route ]
                  /\ \A k \in RouteIds \ {call.route_id} :
                        /\ DictHas(routes', k) = DictHas(routes, k)
                        /\ DictHas(routes, k) => DictGet(routes', k) = DictGet(routes, k)
                  /\ Len(route_snapshots') = Len(route_snapshots) + 1
                  /\ IsPrefix(route_snapshots, route_snapshots')
                  /\ route_snapshots'[Len(route_snapshots')].route_id = call.route_id
             ELSE routes' = routes /\ route_snapshots' = route_snapshots ]_vars

C7_Witness ==
    /\ last = Call("add_route", "r1", "added", <<>>, "none")
    /\ DictHas(routes, "r1")
    /\ DictGet(routes, "r1").bbox # GivenBBox
    /\ DictHas(routes, "r2")

\* C8: in one update_routes pass, for every monitored route whose traffic fetch
\* and route fetch both succeed, exactly one new snapshot is appended for that
\* route id, and the registry's stored last route is replaced by the freshly
\* fetched route; origin, destination and bbox of the entry are left unchanged.
C8_UpdateReplacesRoute ==
    [][ \A traffic_data \in TrafficAnswers, current_route \in OsrmAnswers :
          ( /\ UpdateRoutesStep(traffic_data, current_route)
            /\ Truthy(traffic_data)
            /\ calculate_updated_route_raises(traffic_data) = "none"
            /\ current_route # None )
          => LET route_id == Head(iter)
             IN  /\ Len(route_snapshots') = Len(route_snapshots) + 1
                 /\ IsPrefix(route_snapshots, route_snapshots')
                 /\ route_snapshots'[Len(route_snapshots')].route_id = route_id
                 /\ DictGet(routes', route_id) =
                       [DictGet(routes, route_id) EXCEPT !.current_route = current_route] ]_vars

\* C9: the snapshot log is append-only: every snapshot once recorded is still
\* present with the same route id, timestamp, duration, distance and average
\* speed after any call; the same holds for the recorded change events.
C9_AppendOnly ==
    [][ /\ IsPrefix(route_snapshots, route_snapshots')
        /\ IsPrefix(route_changes, route_changes') ]_vars

C9_Witness ==
    /\ Len(route_snapshots) = 2
    /\ route_snapshots[1].route_id = route_snapshots[2].route_id
    /\ Len(route_changes) >= 1

\* C10: check_route_traffic never adds, removes or modifies an entry of the
\* monitored-route registry, whether it returns a result or null.
C10_RegistryUntouched ==
    [][ ( \E route_data \in Waypoints, traffic_data \in TrafficAnswers, items \in CheckItems,
             db_hit \in BOOLEAN, current_route \in CheckRouteAnswers :
             CheckRouteTraffic(route_data, traffic_data, items, db_hit, current_route) )
        => routes' = routes ]_vars

C10_Witness ==
    /\ last.op = "check_route_traffic"
    /\ last.branch = "result"
    /\ Len(routes) >= 1

\* C11: in start_monitoring update passes never overlap: a turn of a pass
\* processes the one route id that is next and no other, and a pass begins only
\* when no pass is in progress and the one before it has completed, also when a
\* pass has taken longer than the update interval.
C11_PassesNeverOverlap ==
    [][ /\ (pc' = "update" /\ last'.branch = "begin" /\ <<last, mon>> # <<last', mon'>>)
           => /\ pc = "idle"
              /\ mon = "off" \/ last.branch = "completed"
        /\ (pc = "update" /\ iter' # iter)
           => /\ iter # <<>>
              /\ iter' = Tail(iter)
              /\ last'.route_id = Head(iter) ]_vars

\* The job has become due while the initial pass still has a route id to visit
C11_Witness ==
    /\ mon = "initial"
    /\ pc = "update"
    /\ due_in = 0
    /\ Len(routes) = 2
    /\ Len(iter) = 1

\* C12: start_monitoring runs one update pass at startup, before any waiting, and
\* afterwards goes on starting a pass after each interval, indefinitely, provided
\* every external call returns: start_monitoring never ends.
C12_MonitoringNeverEnds ==
    mon # "dead"

\* C13: an add_route call interleaved at any point with an update_routes pass in
\* progress neither makes the pass fail nor causes a route registered before the
\* pass began to be skipped: the pass never ends, with a route id still to visit,
\* by the error the dict raises when it is written to while it is iterated.
C13_PassSurvivesAddRoute ==
    ~(last.op = "update_routes" /\ last.raised = "RuntimeError" /\ iter # <<>>)

----------------------------------------------------------------------------
\* Vocabulary of the estimator properties: the planned duration in seconds, the
\* matched speeds, and fractions compared by cross-multiplication

Planned == Seconds(result[1].route_data.duration)
Matched == result[1].matched_traffic
Speeds == [i \in 1..Len(Matched) |-> Matched[i].current_speed]
SpeedTotal == SumOf(Speeds)

\* Fractions in lowest terms, so that equal fractions are equal records
QInt(k) == [n |-> k, d |-> 1]
QLowest(n, d) ==
    LET g == GCD(Abs(n), Abs(d))
    IN  IF d > 0 THEN [n |-> n \div g, d |-> d \div g] ELSE [n |-> (-n) \div g, d |-> (-d) \div g]
QEq(a, b) == QLowest(a.n, a.d) = QLowest(b.n, b.d)
QMul(a, b) ==
    LET x == QLowest(a.n, b.d)
        y == QLowest(b.n, a.d)
    IN  QLowest(x.n * y.n, x.d * y.d)
QMinus(a, b) == QLowest(a.n * b.d - b.n * a.d, a.d * b.d)

ReturnedBy(fn) == response # None /\ response[1].fn = fn /\ response[1].value # None

\* pct is 0 for a planned duration of 0, and (adjusted - planned) / planned * 100
\* otherwise
PercentAsClaimed(pct, adjusted) ==
    IF Planned.n = 0 THEN pct = QInt(0)
    ELSE QEq(QMul(pct, Planned), QMul(QMinus(adjusted, Planned), QInt(100)))

\* adjusted is the planned duration when nothing is matched or the mean speed is
\* 0 or less, and (distance_km / mean speed) * 3600 otherwise
DurationAsClaimed(adjusted) ==
    IF Matched = <<>> \/ SpeedTotal <= 0 THEN QEq(adjusted, Planned)
    ELSE QEq(QMul(adjusted, QLowest(SpeedTotal, Len(Matched))),
             QLowest(result[1].route_data.distance * 3600, 1000))

\* C18: time_difference_percent, in traffic_adjusted_route and in
\* traffic_metadata, is exactly 0 whenever the planned route duration is 0,
\* whatever the adjusted duration, and (adjusted - planned) / planned * 100
\* otherwise.
C18_TimeDifferencePercent ==
    /\ ReturnedBy("_extract_traffic_adjusted_route")
       => PercentAsClaimed(response[1].value[1].time_difference_percent,
                           response[1].value[1].duration_seconds)
    /\ ReturnedBy("_generate_traffic_adjusted_route_original_format")
       => PercentAsClaimed(response[1].value[1].traffic_metadata.time_difference_percent,
                           response[1].value[1].traffic_metadata.traffic_adjusted_duration)

C18_Witness ==
    /\ ReturnedBy("_generate_traffic_adjusted_route_original_format")
    /\ Planned.n = 0
    /\ response[1].value[1].traffic_metadata.traffic_adjusted_duration.n > 0
    /\ response[1].value[1].traffic_metadata.time_difference_percent = QInt(0)

\* C19: whenever the mean speed of the matched samples is 0 or less, or no sample
\* is matched, the traffic-adjusted duration is the planned duration unchanged,
\* and otherwise it is (distance_km / mean speed) * 3600: in
\* traffic_adjusted_route, in its simple form and in the original format.
C19_AdjustedDuration ==
    /\ ReturnedBy("_extract_traffic_adjusted_route")
       => DurationAsClaimed(response[1].value[1].duration_seconds)
    /\ ReturnedBy("_extract_traffic_adjusted_route_simple")
       => DurationAsClaimed(response[1].value[1].duration_seconds)
    /\ ReturnedBy("_generate_traffic_adjusted_route_original_format")
       => /\ DurationAsClaimed(response[1].value[1].duration)
          /\ DurationAsClaimed(response[1].value[1].traffic_metadata.traffic_adjusted_duration)

C19_Witness ==
    /\ ReturnedBy("_extract_traffic_adjusted_route")
    /\ SpeedTotal < 0
    /\ Planned.n > 0
    /\ result[1].route_data.distance > 0
    /\ response[1].value[1].duration_seconds = Planned

\* C20: the traffic condition by speed has its boundaries in the higher bucket:
\* below 15 km/h congested, from 15 heavy_traffic, from 30 moderate_traffic, from
\* 50 good_flow; so 10, 20, 35, 55 km/h are congested, heavy, moderate, good_flow
\* and 15, 30, 50 are heavy, moderate, good_flow.  The same holds of the condition
\* printed for a matched segment.
C20_Classification ==
    /\ ReturnedBy("_assess_traffic_condition")
       => /\ response[1].value[1] =
                (IF SpeedTotal < 15 * Len(Matched) THEN "congested"
                 ELSE IF SpeedTotal < 30 * Len(Matched) THEN "heavy_traffic"
                 ELSE IF SpeedTotal < 50 * Len(Matched) THEN "moderate_traffic"
                 ELSE "good_flow")
          /\ \A c \in { <<10, "congested">>, <<20, "heavy_traffic">>,
                        <<35, "moderate_traffic">>, <<55, "good_flow">>,
                        <<15, "heavy_traffic">>, <<30, "moderate_traffic">>,
                        <<50, "good_flow">> } :
                Speeds = << c[1] >> => response[1].value[1] = c[2]
    /\ ReturnedBy("_show_detailed_match_info")
       => response[1].value[1] =
             (IF Speeds[1] < 15 THEN "Congested"
              ELSE IF Speeds[1] < 30 THEN "Heavy traffic"
              ELSE IF Speeds[1] < 50 THEN "Moderate traffic"
              ELSE "Good flow")

C20_Witness ==
    /\ ReturnedBy("_assess_traffic_condition")
    /\ Speeds = << 30 >>
    /\ response[1].value[1] = "moderate_traffic"

----------------------------------------------------------------------------
\* Vocabulary of the properties of the endpoints

\* The response served last is one of the endpoint
Served(endpoint) == response # None /\ response[1].endpoint = endpoint

\* The body of an /analyze-route request has a route_data whose result[0] has
\* waypoints, two at least, each with location.latitude and location.longitude,
\* and routes, one at least, with duration and distance in routes[0]
WellFormed(request) ==
    LET body == AnalyzeBodies[request]
    IN  /\ body # None
        /\ Has(body[1], "route_data")
        /\ Has(body[1].route_data, "result")
        /\ Len(body[1].route_data.result) >= 1
        /\ LET first == body[1].route_data.result[1]
           IN  /\ Has(first, "waypoints")
               /\ Len(first.waypoints) >= 2
               /\ \A i \in 1..Len(first.waypoints) :
                      /\ Has(first.waypoints[i], "location")
                      /\ Has(first.waypoints[i].location, "latitude")
                      /\ Has(first.waypoints[i].location, "longitude")
               /\ Has(first, "routes")
               /\ Len(first.routes) >= 1
               /\ Has(first.routes[1], "duration")
               /\ Has(first.routes[1], "distance")

\* The body of an /analyze-route-simple request has two waypoints at least
HasTwoWaypoints(request) ==
    LET body == SimpleBodies[request]
    IN  /\ body # None
        /\ Has(body[1], "waypoints")
        /\ Len(body[1].waypoints) >= 2

\* The traffic provider answers, with no sample: an empty payload, or a payload
\* whose body.items holds no record
NoSamples(upstream) ==
    \/ upstream.traffic_data = "empty"
    \/ upstream.traffic_data = "body" /\ upstream.items = <<>>

C15_ValidRequestSucceeds ==
    ( /\ Served("/analyze-route")
      /\ WellFormed(response[1].request)
      /\ response[1].upstream.traffic_data # NoData
      /\ response[1].upstream.current_route # None
      /\ response[1].upstream.current_route[1].duration > 0 )
    => /\ response[1].code = 200
       /\ response[1].status = "success"
       /\ { "analysis", "traffic_adjusted_route",
            "traffic_adjusted_route_original_format", "recommendations" }
              \subseteq response[1].keys

\* C16: POST /analyze-route-simple with two valid waypoints, a routing engine
\* answering duration 600.3 and distance 9703.7, and a traffic provider with no
\* sample to give responds with success, traffic_segments_found = 0,
\* traffic_adjusted_route.traffic_condition = "no_data" and
\* traffic_adjusted_route.duration_seconds equal to the planned duration.
C16_NoSamplesIsNoData ==
    ( /\ Served("/analyze-route-simple")
      /\ SimpleBodies[response[1].request] =
             << [waypoints |-> <<SimpleWaypoint(S1), SimpleWaypoint(S2)>>] >>
      /\ response[1].upstream.osrm_route = << PlannedRoute >>
      /\ response[1].upstream.current_route = << PlannedRoute >>
      /\ NoSamples(response[1].upstream) )
    => /\ response[1].code = 200
       /\ response[1].status = "success"
       /\ response[1].json[1].traffic_segments_found = 0
       /\ response[1].json[1].traffic_adjusted_route.traffic_condition = "no_data"
       /\ response[1].json[1].traffic_adjusted_route.duration_seconds = Seconds(6003)

SimplePercent == extract_traffic_adjusted_route(result)[1].time_difference_percent

\* C21: the delay classification of /analyze-route-simple depends only on
\* time_difference_percent: above 20 it is heavy_delay, above 10 and up to 20
\* moderate_delay, below -10 faster_than_expected, and from -10 to 10, both
\* included, normal.
C21_DelayClassification ==
    (ReturnedBy("_extract_traffic_adjusted_route_simple") /\ Matched # <<>>)
    => LET pct   == SimplePercent
           label == response[1].value[1].traffic_condition
       IN  /\ pct.n > 20 * pct.d => label = "heavy_delay"
           /\ (pct.n > 10 * pct.d /\ pct.n <= 20 * pct.d) => label = "moderate_delay"
           /\ pct.n < (-10) * pct.d => label = "faster_than_expected"
           /\ (pct.n >= (-10) * pct.d /\ pct.n <= 10 * pct.d) => label = "normal"
           /\ label \in {"heavy_delay", "moderate_delay", "faster_than_expected", "normal"}

C21_Witness ==
    /\ ReturnedBy("_extract_traffic_adjusted_route_simple")
    /\ Matched # <<>>
    /\ SimplePercent = RatInt(20)
    /\ response[1].value[1].traffic_condition = "moderate_delay"

----------------------------------------------------------------------------
\* Vocabulary of the properties of the payload readers

\* The records of the payload read, and those of them that have a linkId
PayloadRecords == result[1].items
Linked == SelectSeq(PayloadRecords, LAMBDA item : item.linkId)

\* No field of a record with a linkId is a text that is no number
AllParseable ==
    \A i \in 1..Len(Linked) :
        Linked[i].speed.kind # "text" /\ Linked[i].travelTime.kind # "text"

\* C22: traffic payload normalisation is uniform across shapes: the same records
\* yield the same samples, and so the same matched set, whether they arrive as
\* body.items, data, response.data, result or a bare list.  Stated of
\* _match_traffic_geographically, whose samples the estimate is made of.
C22_UniformNormalization ==
    (ReturnedBy("_match_traffic_geographically") /\ AllParseable)
    => /\ response[1].value[1].raised = "none"
       /\ response[1].value[1].samples = match_traffic_geographically("body", PayloadRecords)

\* C23: a provider record whose speed or travel time is missing or is no number is
\* normalised to a sample with 0 for that field, and the other records of the
\* batch are all normalised with it: the reader does not fail, and returns one
\* sample for each record that has a linkId.
C23_BadRecordTolerated ==
    ( /\ ReturnedBy("_match_traffic_geographically")
      /\ result[1].traffic_data \in {"body", "data"} )
    => /\ response[1].value[1].raised = "none"
       /\ Len(response[1].value[1].samples) = Len(Linked)
       /\ \A i \in 1..Len(Linked) :
              /\ response[1].value[1].samples[i].current_speed =
                     (IF Linked[i].speed.kind = "number" THEN Linked[i].speed.value ELSE 0)
              /\ response[1].value[1].samples[i].travel_time =
                     (IF Linked[i].travelTime.kind = "number" THEN Linked[i].travelTime.value
                      ELSE 0)

\* C24: every recorded snapshot of a route with duration > 0 carries an average
\* speed in km/h, (distance_m / 1000) / (duration_s / 3600), the value
\* /analyze-route reports as original_route.average_speed_kmh for that route; for
\* duration 0 the recorded average speed is 0.  A row is a row of one of the routes
\* the routing engine answers, by its rounded duration and its distance.
C24_SnapshotSpeedInKmh ==
    \A i \in 1..Len(route_snapshots) :
        \E route \in OsrmRoutes :
            /\ RoundSeconds(route.duration) = route_snapshots[i].duration_seconds
            /\ route.distance = route_snapshots[i].distance_meters
            /\ route_snapshots[i].avg_speed =
                   (IF route.duration > 0 THEN QLowest(36 * route.distance, route.duration)
                    ELSE QInt(0))

----------------------------------------------------------------------------
\* The steps and the samples of the current input of the matchers.
RouteSteps == result[1].route_data.steps
RouteSamples == result[1].matched_traffic

\* a sample is attributed to a segment exactly when the segment name is not empty
\* and one of the two names is a substring of the other
AttributedAsClaimed(step, sample) ==
    /\ step.name # <<>>
    /\ \/ Contains(sample.road_name, step.name)
       \/ Contains(step.name, sample.road_name)

\* C25: name-based matching attributes a sample to a segment exactly when the
\* segment name is non-empty and the sample's road_name is a substring of the
\* segment name or the segment name a substring of the road_name, case-sensitively;
\* a sample may go to several segments, and a segment with an empty name gets none.
\* Stated of both name matchers, the coverage analysis and the per-step mapping.
C25_NameMatching ==
    (ReturnedBy("_analyze_route_geometry_coverage") \/ ReturnedBy("step_traffic_mapping"))
    => \A i \in 1..Len(RouteSteps) :
           response[1].value[1].samples[i] =
               SelectSeq(RouteSamples, LAMBDA sample : AttributedAsClaimed(RouteSteps[i], sample))

\* the sum of the segment-level adjusted durations, and the whole-route estimate
\* when no segment has a name match
RECURSIVE SegmentSum(_)
SegmentSum(steps) ==
    IF steps = <<>> THEN RatInt(0)
    ELSE LET segments == SelectSeq(RouteSamples,
                                   LAMBDA sample : AttributedAsClaimed(steps[1], sample))
         IN  RatAdd(IF segments # <<>> /\ RatIsPositive(MeanSpeed(segments))
                    THEN Rat(steps[1].distance * 3600 * MeanSpeed(segments).d,
                             1000 * MeanSpeed(segments).n)
                    ELSE Seconds(steps[1].duration),
                    SegmentSum(Tail(steps)))
SomeSegmentMatched ==
    \E i \in 1..Len(RouteSteps) : \E j \in 1..Len(RouteSamples) :
        AttributedAsClaimed(RouteSteps[i], RouteSamples[j])
TotalAsClaimed ==
    IF SomeSegmentMatched THEN SegmentSum(RouteSteps)
    ELSE TrafficDuration(result[1].route_data, RouteSamples)

\* C26: the route-level traffic-adjusted duration is the sum over the segments of
\* the segment-level adjusted durations (distance_km / mean * 3600 for a segment
\* whose matched samples have a positive mean speed, the planned duration of the
\* segment otherwise), and the whole-route estimate only when no segment has a name
\* match.  Stated of the duration the API returns and of the one main.py prints.
C26_RouteLevelTotal ==
    /\ ReturnedBy("_extract_traffic_adjusted_route")
       => response[1].value[1].duration_seconds = TotalAsClaimed
    /\ (ReturnedBy("_print_traffic_adjusted_route") /\ response[1].value[1].samples # <<>>)
       => response[1].value[1].samples[1].estimated_duration_s = TotalAsClaimed

----------------------------------------------------------------------------
\* The rows of a route id in a snapshot log and in an event log.
SnapshotsOf(snapshots, r) == SelectSeq(snapshots, LAMBDA row : row.route_id = r)
EventsOfRoute(changes_table, r) == SelectSeq(changes_table, LAMBDA row : row.route_id = r)

\* the step is a successful add_route for r, or a turn of update_routes for r in
\* which the traffic fetch and the route fetch both succeeded
SnapshotDue(r) ==
    \/ \E call \in AddCalls, initial_route \in OsrmAnswers :
          /\ AddRoute(call.route_id, call.start_coords, call.end_coords, call.bbox, initial_route)
          /\ call.route_id = r
          /\ initial_route # None
    \/ \E traffic_data \in TrafficAnswers, current_route \in OsrmAnswers :
          /\ UpdateRoutesStep(traffic_data, current_route)
          /\ Head(iter) = r
          /\ Truthy(traffic_data)
          /\ calculate_updated_route_raises(traffic_data) = "none"
          /\ current_route # None

\* C27: every route id in the registry has at least one snapshot in the log, and
\* the number of snapshots of a route id is the number of successful add_route
\* calls for it plus the number of update turns in which both its traffic fetch and
\* its route fetch succeeded: each such step adds one row for the id, and no other
\* step adds or removes one.
C27_SnapshotsCounted ==
    [][ \A r \in RouteIds :
          /\ DictHas(routes', r) => Len(SnapshotsOf(route_snapshots', r)) >= 1
          /\ Len(SnapshotsOf(route_snapshots', r)) =
                 Len(SnapshotsOf(route_snapshots, r)) + (IF SnapshotDue(r) THEN 1 ELSE 0) ]_vars

C27_Witness ==
    /\ DictHas(routes, "r1")
    /\ Len(SnapshotsOf(route_snapshots, "r1")) = 2
    /\ last.op = "update_routes"
    /\ last.route_id = "r1"
    /\ last.raised = "none"

\* the traffic fetch returned nothing: None, or an empty payload
ReturnsNothing(traffic_data) == traffic_data \in {NoData, "empty"}

\* C28: in a turn of update_routes, when the traffic fetch returns nothing the
\* routing engine is not queried (the outcome is the same whatever it would
\* answer), no snapshot and no change event is recorded and the registry is left
\* as it was; when the traffic fetch succeeds and the route fetch fails, no
\* snapshot and no change event is recorded and the registry, the stored last
\* route included, is left as it was.
C28_FailedFetchFrame ==
    [][ \A traffic_data \in TrafficAnswers, current_route \in OsrmAnswers :
          UpdateRoutesStep(traffic_data, current_route)
          => /\ ReturnsNothing(traffic_data)
                => /\ \A other \in OsrmAnswers : UpdateRoutesStep(traffic_data, other)
                   /\ route_snapshots' = route_snapshots
                   /\ route_changes' = route_changes
                   /\ routes' = routes
             /\ (~ReturnsNothing(traffic_data) /\ current_route = None)
                => /\ route_snapshots' = route_snapshots
                   /\ route_changes' = route_changes
                   /\ routes' = routes ]_vars

C28_Witness ==
    /\ last.op = "update_routes"
    /\ last.route_id = "r2"
    /\ last.branch \in {"no_traffic", "no_route"}
    /\ DictHas(routes, "r1")
    /\ Len(route_snapshots) = 2

\* C29: detect_changes is not idempotent on the event log: called again for the
\* same route id with no snapshot recorded in between, it returns (or raises) what
\* it did before and persists each returned event a second time; and in every step
\* the events persisted for a route id grow by the length of the list that
\* detect_changes returned for it in that step, so their number is the sum of the
\* lengths of all the lists returned.
C29_NotIdempotent ==
    [][ \A r \in RouteIds :
          /\ ( /\ DetectChanges(r)
               /\ last.route_id = r
               /\ \/ last.op = "detect_changes"
                  \/ last.op = "update_routes" /\ last.branch = "updated"
                  \/ last.op = "update_routes" /\ last.raised = "ZeroDivisionError" )
             => /\ last'.raised = last.raised
                /\ last'.changes = last.changes
                /\ Len(route_changes') = Len(route_changes) + Len(last.changes)
                /\ \A i \in 1..Len(last.changes) :
                      LET row == route_changes'[Len(route_changes) + i]
                      IN  /\ row.route_id = r
                          /\ row.change_type = last.changes[i].type
                          /\ row.old_value = last.changes[i].old_value
                          /\ row.new_value = last.changes[i].new_value
          /\ Len(EventsOfRoute(route_changes', r)) =
                 Len(EventsOfRoute(route_changes, r))
                 + (IF last'.route_id = r THEN Len(last'.changes) ELSE 0) ]_vars

C29_Witness ==
    /\ last.op = "detect_changes"
    /\ last.route_id = "r1"
    /\ Len(last.changes) = 1
    /\ Len(route_changes) = 2
    /\ route_changes[1].route_id = "r1"
    /\ route_changes[2].route_id = "r1"
    /\ route_changes[1].change_type = route_changes[2].change_type
    /\ route_changes[1].old_value = route_changes[2].old_value
    /\ route_changes[1].new_value = route_changes[2].new_value

\* What check_route_traffic returns for the request served last
Analysed ==
    check_route_traffic(RouteDataWaypoints(AnalyzeBodies[response[1].request][1].route_data),
                        response[1].upstream.traffic_data, response[1].upstream.items,
                        response[1].upstream.db_hit, response[1].upstream.current_route)

\* C30: the division-by-zero guards of the analysis response do not cover the
\* planned average speed: POST /analyze-route with a validated route whose analysis
\* succeeds with route duration 0 fails on original_route.average_speed_kmh and is
\* answered with 500 and status "error", with no success payload.
C30_ZeroDurationIsError ==
    ( /\ Served("/analyze-route")
      /\ WellFormed(response[1].request)
      /\ Analysed.raised = "none"
      /\ Analysed.value # None
      /\ Analysed.value[1].route_data.duration = 0 )
    => /\ response[1].code = 500
       /\ response[1].status = "error"
       /\ response[1].caught = "ZeroDivisionError"
       /\ response[1].json = None

C30_Witness ==
    /\ Served("/analyze-route")
    /\ WellFormed(response[1].request)
    /\ Analysed.raised = "none"
    /\ Analysed.value # None
    /\ Analysed.value[1].route_data.duration = 0
    /\ Len(Analysed.value[1].matched_traffic) >= 1
    /\ response[1].code = 500
    /\ response[1].caught = "ZeroDivisionError"

====
